---- MODULE Spec2Model ----
(***************************************************************************)
(* A model of apx's development reverse proxy, src/apx/cli/dev/proxy.py    *)
(* (class ProxyManager): the HTTP relay (proxy_http,                       *)
(* proxy_http_streaming), the WebSocket relay (proxy_websocket) and the    *)
(* graceful shutdown (shutdown).                                           *)
(*                                                                         *)
(* The proxy runs on one asyncio event loop.  A coroutine runs without     *)
(* interruption from one suspension point (an await that really waits) to  *)
(* the next, so every action below is one such run.  `async with           *)
(* self._ws_lock` never waits: each holder releases the lock before its    *)
(* next suspension point, so the lock is free whenever a task is resumed,  *)
(* and acquiring a free asyncio.Lock does not yield.  Registering,         *)
(* unregistering and the snapshot of shutdown are therefore part of the    *)
(* run that reaches them.                                                  *)
(*                                                                         *)
(* Text is modelled as a sequence of one-character strings, so that        *)
(* str.startswith, str.rstrip and str.lower are computed, not assumed.     *)
(***************************************************************************)
EXTENDS Integers, Sequences, FiniteSets, TLC

\* ------------------------------------------------------------------ bounds
\* Concurrent tasks of the specification Spec.
NumSessions == 2
NumHttp == 1
NumShutdowns == 1
\* Headers per request and per upstream response in the specification SpecHttp.
MaxHeaders == 2
\* Frames a pump receives in the specification SpecFrames.
MaxFrames == 2

Sessions == 1..NumSessions
HttpCalls == 1..NumHttp
ShutdownCalls == 1..NumShutdowns

Pumps == {"forward_to_target", "forward_to_client"}

VARIABLES
    api_prefix,             \* self.api_prefix
    ctorPrefix,             \* history: the api_prefix argument of __init__
    scenario,               \* which inputs the calls draw from
    accepting_connections,  \* self.accepting_connections
    active_websockets,      \* self._active_websockets (session tasks)
    http_client,            \* self._http_client: "none", "open", "closed"
    shutdownInvoked,        \* history: shutdown() has been called
    wsPc,                   \* position of each proxy_websocket task
    wsCancel,               \* a task.cancel() not yet delivered to the task
    wsStartedAfter,         \* history: the session started after shutdown()
    pump,                   \* state of forward_task / backward_task
    target_ws,              \* the upstream connection of the session
    inbound,                \* the client's connection of the session
    closeCode,              \* close code sent to the client by the proxy
    wsPath,                 \* websocket.url.path of the session
    wsRaised,               \* history: the type of the exception the dial raised
    wsWarning,              \* the warning the session logged (<<>>: none)
    wsInfo,                 \* the info lines the session logged, in order
    ws_close_code,          \* ws_close_code of the session (0: None)
    ws_close_reason,        \* ws_close_reason of the session
    target_close,           \* target_ws.close_code / close_reason (code 0: None)
    pumpEnd,                \* history: what ended each pump
    wsReceived,             \* frames each pump has received from its source
    wsDelivered,            \* frames each pump has sent to the far side
    httpPc,                 \* position of each proxy_http(_streaming) call
    httpOp,                 \* "forward" or "forwardStreaming"
    httpPath,               \* request.url.path
    httpHeaders,            \* request.headers
    httpQuery,              \* request.url.query
    reqBody,                \* the body the caller sends
    httpConn,               \* request.client and request.url.scheme
    httpStartedAfter,       \* history: the call started after shutdown()
    httpFailure,            \* history: what went wrong in the call, if anything
    upTarget,               \* the upstream the outbound request is for
    upUrl,                  \* target_url of the outbound request
    upHeaders,              \* headers of the outbound request
    upBody,                 \* content of the outbound request
    upstreamHeaders,        \* headers of the upstream's response
    upstreamStatus,         \* status of the upstream's response (0: none)
    upstreamBody,           \* body of the upstream's response, as sent
    upResp,                 \* the httpx response object: "none", "open", "closed"
    httpStatus,             \* status of the response returned (0: none yet)
    httpBody,               \* body of the response returned
    respHeaders,            \* headers of the response returned
    httpFault,              \* an exception left the relay unhandled
    httpLog,                \* the lines the call logged, in order
    sdPc,                   \* position of each shutdown() call
    sdTasks,                \* tasks = list(self._active_websockets)
    sdWarned,               \* history: the call logged the timeout warning
    sdAfterReturn,          \* history: the call began after another returned
    clientCloses,           \* history: number of aclose() calls on the client
    clientsMade,            \* history: number of httpx.AsyncClient(...) made
    lockLocked,             \* self._ws_lock.locked()
    lockWaiters,            \* the tasks queued in self._ws_lock.acquire(), in order
    lockHolding             \* per task: the place where it entered `async with
                            \* self._ws_lock` ("out": it is not inside)

cfgVars == <<api_prefix, ctorPrefix, scenario>>
frameVars == <<wsReceived, wsDelivered>>
logVars == <<wsPath, wsRaised, wsWarning, wsInfo>>
codeVars == <<ws_close_code, ws_close_reason, target_close, pumpEnd>>
wsVars == <<wsPc, wsCancel, wsStartedAfter, pump, target_ws, inbound, closeCode,
            frameVars, logVars, codeVars>>
httpVars == <<httpPc, httpOp, httpPath, httpHeaders, httpQuery, reqBody, httpConn,
              httpStartedAfter, httpFailure, upTarget, upUrl, upHeaders,
              upBody, upstreamStatus, upstreamBody, upResp, upstreamHeaders, httpStatus,
              httpBody, respHeaders, httpFault, httpLog>>
sdVars == <<sdPc, sdTasks, sdWarned, sdAfterReturn, clientCloses>>
lockVars == <<lockLocked, lockWaiters, lockHolding>>
procVars == <<cfgVars, accepting_connections, active_websockets, http_client,
              shutdownInvoked, wsVars, httpVars, sdVars, clientsMade>>
vars == <<procVars, lockVars>>

\* The tasks that use the registry: the session handlers S and the
\* shutdown() calls K.
SessionTask(s) == [kind |-> "proxy_websocket", id |-> s]
ShutdownTask(k) == [kind |-> "shutdown", id |-> k]
RegistryTasks(S, K) ==
    {SessionTask(s) : s \in S} \cup {ShutdownTask(k) : k \in K}

\* A session task that has finished (returned, or ended by CancelledError).
WsFinished == {"rejected", "returned", "cancelled"}

\* -------------------------------------------------------------------- text
\* str.rstrip("/")
RECURSIVE RStripSlash(_)
RStripSlash(s) ==
    IF s # <<>> /\ s[Len(s)] = "/"
      THEN RStripSlash(SubSeq(s, 1, Len(s) - 1))
      ELSE s

\* str.startswith(prefix)
StartsWith(s, prefix) ==
    /\ Len(prefix) <= Len(s)
    /\ SubSeq(s, 1, Len(prefix)) = prefix

\* str.lower(), character by character (ASCII letters)
LowerChar(ch) ==
    CASE ch = "A" -> "a" [] ch = "B" -> "b" [] ch = "C" -> "c"
      [] ch = "D" -> "d" [] ch = "E" -> "e" [] ch = "F" -> "f"
      [] ch = "G" -> "g" [] ch = "H" -> "h" [] ch = "I" -> "i"
      [] ch = "J" -> "j" [] ch = "K" -> "k" [] ch = "L" -> "l"
      [] ch = "M" -> "m" [] ch = "N" -> "n" [] ch = "O" -> "o"
      [] ch = "P" -> "p" [] ch = "Q" -> "q" [] ch = "R" -> "r"
      [] ch = "S" -> "s" [] ch = "T" -> "t" [] ch = "U" -> "u"
      [] ch = "V" -> "v" [] ch = "W" -> "w" [] ch = "X" -> "x"
      [] ch = "Y" -> "y" [] ch = "Z" -> "z"
      [] OTHER -> ch

Lower(s) == [i \in DOMAIN s |-> LowerChar(s[i])]

\* ------------------------------------------------------------------ inputs
PathRoot == <<"/">>
PathEmpty == <<>>
PathAp == <<"/", "a", "p">>
PathApi == <<"/", "a", "p", "i">>
PathApiVersion == <<"/", "a", "p", "i", "/", "v", "e", "r", "s", "i", "o", "n">>
PathApiAbc == <<"/", "a", "p", "i", "a", "b", "c">>
Paths == {PathRoot, PathEmpty, PathAp, PathApi, PathApiVersion, PathApiAbc}

\* Paths whose last segment has a dot: a script of the UI, the same name
\* under the API prefix, a name that ends with the dot, a directory.
PathScript == <<"/", "m", ".", "j", "s">>
PathApiScript == <<"/", "a", "p", "i", "/", "m", ".", "j", "s">>
PathDotEnd == <<"/", "m", ".">>
PathDotDir == <<"/", "v", ".", "1", "/">>
DotPaths == {PathScript, PathApiScript, PathDotEnd, PathDotDir}

\* api_prefix arguments of the constructor ("/api" is DEFAULT_API_PREFIX)
DefaultApiPrefix == <<"/", "a", "p", "i">>
RawPrefixes == {DefaultApiPrefix,
                <<"/", "a", "p", "i", "/">>,
                <<"/", "a", "p", "i", "/", "/">>,
                <<"/">>}

\* Header names a client may send, in several letter cases.
RequestHeaderNames ==
    {<<"T", "E">>,
     <<"U", "p", "g", "r", "a", "d", "e">>,
     <<"K", "e", "e", "p", "-", "A", "l", "i", "v", "e">>,
     <<"h", "o", "s", "t">>, <<"H", "o", "s", "t">>,
     <<"a", "c", "c", "e", "p", "t">>}

\* Header names an upstream may answer with.
ResponseHeaderNames ==
    {<<"C", "o", "n", "n", "e", "c", "t", "i", "o", "n">>,
     <<"T", "R", "A", "I", "L", "E", "R", "S">>,
     <<"t", "e">>,
     <<"X", "-", "U", "p">>}

\* The dicts of at most n headers over the given names.
HeaderDicts(names, n) ==
    UNION {[S -> {"v"}] : S \in {T \in SUBSET names : Cardinality(T) <= n}}

NoHeaders == [x \in {} |-> "v"]

\* Query strings: none, and "a=1".
NoQuery == <<>>
Queries == {NoQuery, <<"a", "=", "1">>}

\* Bodies: none, and "hi".
NoBody == <<>>
Bodies == {NoBody, <<"h", "i">>}

\* gzip of a body, and its inverse on what gzip produces: the compressed
\* bytes are the two magic bytes and the body's bytes.
Gzip(b) == <<"1f8b">> \o b
Gunzip(w) == Tail(w)

ContentEncoding ==
    <<"C", "o", "n", "t", "e", "n", "t", "-", "E", "n", "c", "o", "d", "i", "n", "g">>

\* An upstream's answer with status 200, the headers rh and a fixed body.
PlainAnswer(rh) ==
    [status |-> 200, headers |-> rh, body |-> <<"upstream body">>]

\* Answers of an upstream: any of three statuses, a body sent as it is or
\* sent gzip-compressed under Content-Encoding: gzip.
UpstreamStatuses == {200, 404, 503}
UpstreamAnswers ==
    {[status |-> st, headers |-> NoHeaders, body |-> b] :
        st \in UpstreamStatuses, b \in Bodies}
    \cup {[status |-> st, headers |-> (ContentEncoding :> "gzip"),
           body |-> Gzip(b)] :
        st \in UpstreamStatuses, b \in Bodies}

\* The connection a request arrives on: request.client (its host, or "none"
\* when the server knows no peer address) and request.url.scheme.
LocalConn == [client |-> "127.0.0.1", scheme |-> "http"]
Conns ==
    {[client |-> cl, scheme |-> sc] :
        cl \in {"127.0.0.1", "203.0.113.7", "none"}, sc \in {"http", "https"}}

\* Names as an ASGI server hands them over (lowercased) that bear on the
\* headers the proxy sets itself, and the dicts a client may send over
\* them: a Host value, and values of its own for the proxy's headers.
ForwardedNames ==
    {<<"h", "o", "s", "t">>,
     <<"x", "-", "f", "o", "r", "w", "a", "r", "d", "e", "d", "-", "f", "o", "r">>,
     <<"x", "-", "f", "o", "r", "w", "a", "r", "d", "e", "d", "-", "p", "r", "o", "t", "o">>,
     <<"x", "-", "f", "o", "r", "w", "a", "r", "d", "e", "d", "-", "h", "o", "s", "t">>,
     <<"x", "-", "a", "p", "x", "-", "d", "e", "v", "-", "p", "r", "o", "x", "y">>}
ClientHeaderValue(n) == IF n = <<"h", "o", "s", "t">> THEN "dev.test:9000" ELSE "spoofed"
ForwardedHeaders ==
    {[n \in S |-> ClientHeaderValue(n)] : S \in SUBSET ForwardedNames}

\* What the calls of the concurrency specification send and get.
PlainInputs ==
    [paths |-> {PathApiVersion},
     conns |-> {LocalConn},
     headers |-> {NoHeaders},
     queries |-> {NoQuery},
     bodies |-> {NoBody},
     answers |-> {PlainAnswer(NoHeaders)}]

\* What the call of the relay specification sends and gets.
RelayInputs ==
    [paths |-> Paths,
     conns |-> {LocalConn},
     headers |-> HeaderDicts(RequestHeaderNames, MaxHeaders),
     queries |-> {NoQuery},
     bodies |-> {NoBody},
     answers |-> {PlainAnswer(rh) :
                    rh \in HeaderDicts(ResponseHeaderNames, MaxHeaders)}]

\* What the call of the payload specification sends and gets.
PayloadInputs ==
    [paths |-> {PathRoot, PathApiVersion, PathApiAbc} \cup DotPaths,
     conns |-> {LocalConn},
     headers |-> {NoHeaders},
     queries |-> Queries,
     bodies |-> Bodies,
     answers |-> UpstreamAnswers]

\* What the call of the forwarding specification sends and gets.
ForwardedInputs ==
    [paths |-> {PathRoot, PathApiVersion},
     conns |-> Conns,
     headers |-> ForwardedHeaders,
     queries |-> {NoQuery},
     bodies |-> {NoBody},
     answers |-> {PlainAnswer(NoHeaders)}]

\* The requests and upstream answers the calls draw from.
Inputs ==
    CASE scenario = "relay" -> RelayInputs
      [] scenario = "payload" -> PayloadInputs
      [] scenario = "forwarded" -> ForwardedInputs
      [] OTHER -> PlainInputs

\* ------------------------------------------------------- WebSocket inputs
\* No close code: ws_close_code = None, or target_ws.close_code = None (the
\* upstream connection is not closed).
NoClose == [code |-> 0, reason |-> ""]

\* Exceptions ws_connect raises, with the classes an except clause matches
\* them by: the opening handshake timing out, the upstream not listening,
\* a name that does not resolve, the upstream refusing the upgrade.
DialErrors ==
    {[type |-> "builtins.TimeoutError",
      classes |-> {"asyncio.TimeoutError", "OSError", "Exception"},
      msg |-> "timed out during opening handshake"],
     [type |-> "builtins.ConnectionRefusedError",
      classes |-> {"ConnectionRefusedError", "OSError", "Exception"},
      msg |-> "[Errno 111] Connect call failed"],
     [type |-> "socket.gaierror",
      classes |-> {"OSError", "Exception"},
      msg |-> "[Errno -2] Name or service not known"],
     [type |-> "websockets.exceptions.InvalidStatus",
      classes |-> {"Exception"},
      msg |-> "server rejected WebSocket connection: HTTP 403"]}

\* What ends forward_to_target by itself: a websocket.disconnect message
\* from the client, or active_target_ws.send raising because the upstream
\* has closed.  `upstream` is what target_ws.close_code / close_reason show
\* after the event (NoClose: the event says nothing about the upstream).
ClientDisconnects ==
    {[how |-> "disconnect", code |-> 1000, reason |-> "", upstream |-> NoClose],
     [how |-> "disconnect", code |-> 1001, reason |-> "bye", upstream |-> NoClose]}
ForwardErrors ==
    {[how |-> "error", code |-> 0, reason |-> "",
      upstream |-> [code |-> 1011, reason |-> "boom"]]}

\* What ends forward_to_client by itself: the upstream closing normally (the
\* iteration ends), the upstream closing otherwise (ConnectionClosed with
\* the code and reason received, 1006 when none was), or websocket.send_text
\* raising because the client has gone.
UpstreamCloses ==
    {[how |-> "end", code |-> 0, reason |-> "",
      upstream |-> [code |-> 1000, reason |-> ""]],
     [how |-> "ConnectionClosed", code |-> 1011, reason |-> "boom",
      upstream |-> [code |-> 1011, reason |-> "boom"]],
     [how |-> "ConnectionClosed", code |-> 1006, reason |-> "",
      upstream |-> [code |-> 1006, reason |-> ""]]}
BackwardErrors ==
    {[how |-> "error", code |-> 0, reason |-> "", upstream |-> NoClose]}

\* What the sessions of the concurrency specifications meet.
PlainWsInputs ==
    [paths |-> {PathRoot},
     installed |-> {TRUE},
     dialErrors |-> {e \in DialErrors : e.type = "builtins.ConnectionRefusedError"},
     ends |-> [p \in Pumps |->
                 IF p = "forward_to_target"
                   THEN {e \in ClientDisconnects : e.code = 1000}
                   ELSE {e \in UpstreamCloses : e.how = "end"}]]

\* What the session of the session specification meets.
SessionInputs ==
    [paths |-> {PathRoot, PathApiVersion},
     installed |-> BOOLEAN,
     dialErrors |-> DialErrors,
     ends |-> [p \in Pumps |->
                 IF p = "forward_to_target"
                   THEN ClientDisconnects \cup ForwardErrors
                   ELSE UpstreamCloses \cup BackwardErrors]]

\* What the sessions of the pump specification meet: pumps that end by an
\* error as well.
PumpInputs ==
    [paths |-> {PathRoot},
     installed |-> {TRUE},
     dialErrors |-> {e \in DialErrors : e.type = "builtins.ConnectionRefusedError"},
     ends |-> [p \in Pumps |->
                 IF p = "forward_to_target"
                   THEN {e \in ClientDisconnects : e.code = 1000} \cup ForwardErrors
                   ELSE {e \in UpstreamCloses : e.how = "end"} \cup BackwardErrors]]

\* The paths, dial outcomes and pump events the sessions draw from.
WsInputs ==
    CASE scenario = "session" -> SessionInputs
      [] scenario = "pumps" -> PumpInputs
      [] OTHER -> PlainWsInputs

\* --------------------------------------------------------------- __init__
\* The constructor, for the given tasks, api_prefix argument and inputs.
InitWith(S, H, K, raw, inp) ==
    /\ api_prefix = RStripSlash(raw)
    /\ ctorPrefix = raw
    /\ scenario = inp
    /\ accepting_connections = TRUE
    /\ active_websockets = {}
    /\ http_client = "none"
    /\ shutdownInvoked = FALSE
    /\ wsPc = [s \in S |-> "idle"]
    /\ wsCancel = [s \in S |-> FALSE]
    /\ wsStartedAfter = [s \in S |-> FALSE]
    /\ pump = [s \in S |-> [p \in Pumps |-> "none"]]
    /\ target_ws = [s \in S |-> "none"]
    /\ inbound = [s \in S |-> "pending"]
    /\ closeCode = [s \in S |-> 0]
    /\ wsPath = [s \in S |-> <<>>]
    /\ wsRaised = [s \in S |-> "none"]
    /\ wsWarning = [s \in S |-> <<>>]
    /\ wsInfo = [s \in S |-> <<>>]
    /\ ws_close_code = [s \in S |-> 0]
    /\ ws_close_reason = [s \in S |-> ""]
    /\ target_close = [s \in S |-> NoClose]
    /\ pumpEnd = [s \in S |-> [p \in Pumps |-> "none"]]
    /\ wsReceived = [s \in S |-> [p \in Pumps |-> <<>>]]
    /\ wsDelivered = [s \in S |-> [p \in Pumps |-> <<>>]]
    /\ httpPc = [c \in H |-> "idle"]
    /\ httpOp = [c \in H |-> "forward"]
    /\ httpPath = [c \in H |-> <<>>]
    /\ httpHeaders = [c \in H |-> NoHeaders]
    /\ httpQuery = [c \in H |-> NoQuery]
    /\ reqBody = [c \in H |-> NoBody]
    /\ httpConn = [c \in H |-> LocalConn]
    /\ httpStartedAfter = [c \in H |-> FALSE]
    /\ httpFailure = [c \in H |-> "none"]
    /\ upTarget = [c \in H |-> "none"]
    /\ upUrl = [c \in H |-> <<>>]
    /\ upHeaders = [c \in H |-> NoHeaders]
    /\ upBody = [c \in H |-> NoBody]
    /\ upstreamHeaders = [c \in H |-> NoHeaders]
    /\ upstreamStatus = [c \in H |-> 0]
    /\ upstreamBody = [c \in H |-> NoBody]
    /\ upResp = [c \in H |-> "none"]
    /\ httpStatus = [c \in H |-> 0]
    /\ httpBody = [c \in H |-> <<>>]
    /\ respHeaders = [c \in H |-> NoHeaders]
    /\ httpFault = [c \in H |-> FALSE]
    /\ httpLog = [c \in H |-> <<>>]
    /\ sdPc = [k \in K |-> "idle"]
    /\ sdTasks = [k \in K |-> {}]
    /\ sdWarned = [k \in K |-> FALSE]
    /\ sdAfterReturn = [k \in K |-> FALSE]
    /\ clientCloses = 0
    /\ clientsMade = 0
    /\ lockLocked = FALSE
    /\ lockWaiters = <<>>
    /\ lockHolding = [t \in RegistryTasks(S, K) |-> "out"]

Init == InitWith(Sessions, HttpCalls, ShutdownCalls, DefaultApiPrefix, "plain")

\* ------------------------------------------------- the Connection Registry
\* self._active_websockets.add(current_task), under self._ws_lock.
Registered(s) == active_websockets \cup {s}

\* Faulty variant: the discard is skipped when the finally block is entered by a
\* CancelledError.
UnregisteredUnlessCancelled(s, cancelled) ==
    IF cancelled THEN active_websockets ELSE active_websockets \ {s}

\* self._active_websockets.discard(current_task), under self._ws_lock: the
\* first statement of the finally block that could wait, and it does not;
\* it runs whether the block is entered normally or by a CancelledError
\* (cancelled = TRUE).
Unregistered(s, cancelled) == active_websockets \ {s}

\* After the discard the finally block closes target_ws if the dial gave one
\* (await target_ws.close()), then the client (await websocket.close()).
TeardownPc(tgt) == IF tgt # "none" THEN "closingTarget" ELSE "closingClient"

\* ------------------------------------------------- what a session logs
\* target_name of the session: _get_target_name(path), "api" or "ui".
\* (_get_target_name is defined with the routing functions below.)
WsTargetName(path) == IF StartsWith(path, api_prefix) THEN "api" ELSE "ui"

\* Faulty variant: `except OSError` is written first.
ExceptClauseOsErrorFirst(e) ==
    CASE "OSError" \in e.classes -> "os_error"
      [] "asyncio.TimeoutError" \in e.classes -> "timeout"
      [] "ConnectionRefusedError" \in e.classes -> "refused"
      [] OTHER -> "error"

\* The except clause that handles an exception raised in the try block, in
\* the order the clauses are written.
ExceptClause(e) ==
    CASE "asyncio.TimeoutError" \in e.classes -> "timeout"
      [] "ConnectionRefusedError" \in e.classes -> "refused"
      [] "OSError" \in e.classes -> "os_error"
      [] OTHER -> "error"

\* The text of the warning each clause logs (after "WS {path} -> {target} | ").
WarningFor(e) ==
    CASE ExceptClause(e) = "timeout" -> <<"connection timeout after">>
      [] ExceptClause(e) = "refused" -> <<"connection refused to">>
      [] ExceptClause(e) = "os_error" -> <<"OS error connecting to", e.msg>>
      [] OTHER -> <<"error", e.type, e.msg>>

\* Faulty variant: the upstream connection's own code replaces the code a
\* pump captured.
FinalCloseUpstreamFirst(s) ==
    IF target_ws[s] # "none" /\ target_close[s] # NoClose
      THEN target_close[s]
      ELSE [code |-> ws_close_code[s], reason |-> ws_close_reason[s]]

\* The first statement of the finally block: `if ws_close_code is None and
\* target_ws is not None:` the code and reason are read from target_ws.
FinalClose(s) ==
    IF ws_close_code[s] = 0 /\ target_ws[s] # "none"
      THEN target_close[s]
      ELSE [code |-> ws_close_code[s], reason |-> ws_close_reason[s]]

\* The line the finally block logs for a UI session.
CloseLine(c) ==
    CASE c.code = 0 -> <<"connection closed">>
      [] c.code = 1000 -> <<"connection closed successfully">>
      [] OTHER -> <<"connection closed with code", c.code, c.reason>>

\* Faulty variant: the close line is logged whatever the target.
FinallyAnyTarget(s) ==
    /\ ws_close_code' = [ws_close_code EXCEPT ![s] = FinalClose(s).code]
    /\ ws_close_reason' = [ws_close_reason EXCEPT ![s] = FinalClose(s).reason]
    /\ wsInfo' = [wsInfo EXCEPT ![s] = Append(@, CloseLine(FinalClose(s)))]

\* The finally block up to the discard: the close code is settled and, for
\* a UI session, the close line is logged.
Finally(s) ==
    /\ ws_close_code' = [ws_close_code EXCEPT ![s] = FinalClose(s).code]
    /\ ws_close_reason' = [ws_close_reason EXCEPT ![s] = FinalClose(s).reason]
    /\ wsInfo' = [wsInfo EXCEPT ![s] =
                    IF WsTargetName(wsPath[s]) = "ui"
                      THEN Append(@, CloseLine(FinalClose(s))) ELSE @]

\* Faulty variant: the `return` after close(code=1001) is missing, the
\* handler goes on to accept and dial.
WsStartGoesOn(s, path) ==
    /\ wsPc[s] = "idle"
    /\ wsPath' = [wsPath EXCEPT ![s] = path]
    /\ wsStartedAfter' = [wsStartedAfter EXCEPT ![s] = shutdownInvoked]
    /\ wsPc' = [wsPc EXCEPT ![s] = "accepting"]
    /\ IF ~accepting_connections
         THEN /\ inbound' = [inbound EXCEPT ![s] = "closed"]
              /\ closeCode' = [closeCode EXCEPT ![s] = 1001]
              /\ wsInfo' = [wsInfo EXCEPT ![s] = <<<<"rejected (shutting down)">>>>]
         ELSE UNCHANGED <<inbound, closeCode, wsInfo>>
    /\ UNCHANGED <<accepting_connections, active_websockets, http_client,
                   shutdownInvoked, wsCancel, pump, target_ws, frameVars,
                   wsRaised, wsWarning, codeVars, httpVars, sdVars, cfgVars, clientsMade, lockVars>>

\* Faulty variant: the task registers itself before the gate is read.
WsStartRegistersFirst(s, path) ==
    /\ wsPc[s] = "idle"
    /\ wsPath' = [wsPath EXCEPT ![s] = path]
    /\ wsStartedAfter' = [wsStartedAfter EXCEPT ![s] = shutdownInvoked]
    /\ active_websockets' = Registered(s)
    /\ IF ~accepting_connections
         THEN /\ wsPc' = [wsPc EXCEPT ![s] = "rejected"]
              /\ inbound' = [inbound EXCEPT ![s] = "closed"]
              /\ closeCode' = [closeCode EXCEPT ![s] = 1001]
              /\ wsInfo' = [wsInfo EXCEPT ![s] = <<<<"rejected (shutting down)">>>>]
         ELSE /\ wsPc' = [wsPc EXCEPT ![s] = "accepting"]
              /\ UNCHANGED <<inbound, closeCode, wsInfo>>
    /\ UNCHANGED <<accepting_connections, http_client,
                   shutdownInvoked, wsCancel, pump, target_ws, frameVars,
                   wsRaised, wsWarning, codeVars, httpVars, sdVars, cfgVars,
                   clientsMade, lockVars>>

\* --------------------------------------------------------- proxy_websocket
\* Entry: the gate is read before any await.  Gate closed: the upgrade is
\* closed with 1001 and the handler returns.  Gate open: the handler goes on
\* to `await websocket.accept()`.
WsStart(s, path) ==
    /\ wsPc[s] = "idle"
    /\ wsPath' = [wsPath EXCEPT ![s] = path]
    /\ wsStartedAfter' = [wsStartedAfter EXCEPT ![s] = shutdownInvoked]
    /\ IF ~accepting_connections
         THEN /\ wsPc' = [wsPc EXCEPT ![s] = "rejected"]
              /\ inbound' = [inbound EXCEPT ![s] = "closed"]
              /\ closeCode' = [closeCode EXCEPT ![s] = 1001]
              /\ wsInfo' = [wsInfo EXCEPT ![s] = <<<<"rejected (shutting down)">>>>]
         ELSE /\ wsPc' = [wsPc EXCEPT ![s] = "accepting"]
              /\ UNCHANGED <<inbound, closeCode, wsInfo>>
    /\ UNCHANGED <<accepting_connections, active_websockets, http_client,
                   shutdownInvoked, wsCancel, pump, target_ws, frameVars,
                   wsRaised, wsWarning, codeVars, httpVars, sdVars, cfgVars, clientsMade, lockVars>>

\* Faulty variant: the dial is started before the upgrade is accepted.
WsAcceptedAfterDial(s, installed) ==
    /\ wsPc[s] = "accepting"
    /\ wsPc' = [wsPc EXCEPT ![s] = "dialing"]
    /\ UNCHANGED <<accepting_connections, active_websockets, http_client,
                   shutdownInvoked, wsCancel, wsStartedAfter, pump, target_ws,
                   inbound, closeCode, frameVars, logVars, codeVars, httpVars,
                   sdVars, cfgVars, clientsMade, lockVars>>

\* websocket.accept() returns.  With the websockets package importable the
\* handler starts `await ws_connect(...)`; without it, it logs a warning,
\* closes the client with code 1011 and returns.
WsAccepted(s, installed) ==
    /\ wsPc[s] = "accepting"
    /\ IF installed
         THEN /\ inbound' = [inbound EXCEPT ![s] = "accepted"]
              /\ wsPc' = [wsPc EXCEPT ![s] = "dialing"]
              /\ UNCHANGED <<closeCode, wsWarning>>
         ELSE /\ inbound' = [inbound EXCEPT ![s] = "closed"]
              /\ closeCode' = [closeCode EXCEPT ![s] = 1011]
              /\ wsWarning' = [wsWarning EXCEPT ![s] =
                                 <<"failed (websockets not installed)">>]
              /\ wsPc' = [wsPc EXCEPT ![s] = "returned"]
    /\ UNCHANGED <<accepting_connections, active_websockets, http_client,
                   shutdownInvoked, wsCancel, wsStartedAfter, pump, target_ws,
                   frameVars, wsPath, wsRaised, wsInfo, codeVars, httpVars, sdVars,
                   cfgVars, clientsMade, lockVars>>

\* ws_connect returns a connection: the task registers itself, creates the
\* two pump tasks and waits in asyncio.wait(..., FIRST_COMPLETED).  The gate
\* is not read again here.
WsDialOk(s) ==
    /\ wsPc[s] = "dialing"
    /\ target_ws' = [target_ws EXCEPT ![s] = "open"]
    /\ active_websockets' = Registered(s)
    /\ pump' = [pump EXCEPT ![s] = [p \in Pumps |-> "running"]]
    /\ wsPc' = [wsPc EXCEPT ![s] = "waiting"]
    /\ wsInfo' = [wsInfo EXCEPT ![s] =
                    IF WsTargetName(wsPath[s]) = "ui"
                      THEN Append(@, <<"connection opened">>) ELSE @]
    /\ UNCHANGED <<accepting_connections, http_client, shutdownInvoked,
                   wsCancel, wsStartedAfter, inbound, closeCode, frameVars,
                   wsPath, wsRaised, wsWarning, codeVars, httpVars, sdVars, cfgVars, clientsMade, lockVars>>

\* ws_connect raises `e` (TimeoutError, ConnectionRefusedError, OSError,
\* other): the except clause logs its warning, the finally block runs with
\* target_ws = None.
WsDialFail(s, e) ==
    /\ wsPc[s] = "dialing"
    /\ wsRaised' = [wsRaised EXCEPT ![s] = e.type]
    /\ wsWarning' = [wsWarning EXCEPT ![s] = WarningFor(e)]
    /\ Finally(s)
    /\ active_websockets' = Unregistered(s, FALSE)
    /\ wsPc' = [wsPc EXCEPT ![s] = TeardownPc(target_ws[s])]
    /\ UNCHANGED <<accepting_connections, http_client, shutdownInvoked,
                   wsCancel, wsStartedAfter, pump, target_ws, inbound,
                   closeCode, frameVars, wsPath, target_close, pumpEnd,
                   httpVars, sdVars, cfgVars, clientsMade, lockVars>>

\* Faulty variant: an error in one pump ends both pumps.
AfterPumpEndBoth(s, p, e) ==
    IF e.how = "error"
      THEN [q \in Pumps |-> "finished"]
      ELSE [pump[s] EXCEPT ![p] = "finished"]

\* The pump tasks of the session once pump p has ended by the event e: the
\* coroutine returns (an exception is swallowed by `except Exception:
\* pass`), its task is done, the other task is as it was.
AfterPumpEnd(s, p, e) == [pump[s] EXCEPT ![p] = "finished"]

\* Whether the event makes the pump assign ws_close_code / ws_close_reason:
\* the disconnect message (forward_to_target) and ConnectionClosed
\* (forward_to_client) do, the end of the iteration and other exceptions
\* do not.
Captures(e) == e.how \in {"disconnect", "ConnectionClosed"}

\* A pump task ends by itself: the client disconnected or the upstream
\* closed, or an exception ended it (swallowed by `except Exception: pass`).
\* The pump assigns the close code and reason it captured, whatever the
\* other pump assigned before.
PumpFinish(s, p, e) ==
    /\ pump[s][p] = "running"
    /\ e.upstream = NoClose \/ target_close[s] \in {NoClose, e.upstream}
    /\ pump' = [pump EXCEPT ![s] = AfterPumpEnd(s, p, e)]
    /\ pumpEnd' = [pumpEnd EXCEPT ![s][p] = e.how]
    /\ ws_close_code' = [ws_close_code EXCEPT ![s] =
                           IF Captures(e) THEN e.code ELSE @]
    /\ ws_close_reason' = [ws_close_reason EXCEPT ![s] =
                             IF Captures(e) THEN e.reason ELSE @]
    /\ target_close' = [target_close EXCEPT ![s] =
                          IF e.upstream # NoClose THEN e.upstream ELSE @]
    /\ UNCHANGED <<accepting_connections, active_websockets, http_client,
                   shutdownInvoked, wsPc, wsCancel, wsStartedAfter, target_ws,
                   inbound, closeCode, frameVars, logVars, httpVars, sdVars,
                   cfgVars, clientsMade, lockVars>>

\* A pump task whose cancel() was called receives CancelledError, which
\* `except Exception` does not catch: the pump task ends cancelled.
PumpCancelled(s, p) ==
    /\ pump[s][p] = "cancelling"
    /\ pump' = [pump EXCEPT ![s][p] = "cancelled"]
    /\ UNCHANGED <<accepting_connections, active_websockets, http_client,
                   shutdownInvoked, wsPc, wsCancel, wsStartedAfter, target_ws,
                   inbound, closeCode, frameVars, logVars, codeVars, httpVars, sdVars,
                   cfgVars, clientsMade, lockVars>>

\* What the two pumps relay: a text frame or a binary frame.
Frames == {[kind |-> "text", data |-> "a"], [kind |-> "bytes", data |-> "b"]}

\* What a pump sends for the frame it received.  forward_to_target:
\* send(data["text"]) when the message has a "text" key, send(data["bytes"])
\* when it has a "bytes" key; websockets sends a str as a text frame and
\* bytes as a binary frame.  forward_to_client: send_text for a str message,
\* send_bytes otherwise.
Relayed(p, f) ==
    IF p = "forward_to_target"
      THEN CASE f.kind = "text" -> [kind |-> "text", data |-> f.data]
             [] f.kind = "bytes" -> [kind |-> "bytes", data |-> f.data]
      ELSE IF f.kind = "text"
             THEN [kind |-> "text", data |-> f.data]
             ELSE [kind |-> "bytes", data |-> f.data]

\* The pump holds a frame: it received it and its send has not returned.
Holding(s, p) == Len(wsReceived[s][p]) > Len(wsDelivered[s][p])

\* `data = await websocket.receive()` / `async for message in
\* active_target_ws` hands the pump the next frame of its source, and the
\* pump waits in the send to the far side.
PumpReceive(s, p, f) ==
    /\ pump[s][p] = "running"
    /\ ~Holding(s, p)
    /\ Len(wsReceived[s][p]) < MaxFrames
    /\ wsReceived' = [wsReceived EXCEPT ![s][p] = Append(@, f)]
    /\ UNCHANGED <<accepting_connections, active_websockets, http_client,
                   shutdownInvoked, wsPc, wsCancel, wsStartedAfter, pump,
                   target_ws, inbound, closeCode, wsDelivered, logVars,
                   codeVars, httpVars, sdVars, cfgVars, clientsMade, lockVars>>

\* Faulty variant: the frame sent is put before those already delivered.
SentSoFarNewestFirst(s, p) ==
    <<Relayed(p, wsReceived[s][p][Len(wsReceived[s][p])])>>
      \o wsDelivered[s][p]

\* The far side's frames once the send of the frame held returns.
SentSoFar(s, p) ==
    Append(wsDelivered[s][p],
           Relayed(p, wsReceived[s][p][Len(wsReceived[s][p])]))

\* The send returns: the far side has the frame, the pump loops.
PumpSent(s, p) ==
    /\ pump[s][p] = "running"
    /\ Holding(s, p)
    /\ wsDelivered' = [wsDelivered EXCEPT ![s][p] = SentSoFar(s, p)]
    /\ UNCHANGED <<accepting_connections, active_websockets, http_client,
                   shutdownInvoked, wsPc, wsCancel, wsStartedAfter, pump,
                   target_ws, inbound, closeCode, wsReceived, logVars,
                   codeVars, httpVars, sdVars, cfgVars, clientsMade, lockVars>>

\* asyncio.wait returns (no cancellation pending): every pump still running
\* is cancelled and awaited; with none pending the finally block starts.
WsWake(s) ==
    /\ wsPc[s] = "waiting"
    /\ ~wsCancel[s]
    /\ \E p \in Pumps : pump[s][p] = "finished"
    /\ pump' = [pump EXCEPT ![s] =
                  [p \in Pumps |-> IF pump[s][p] = "running"
                                     THEN "cancelling" ELSE pump[s][p]]]
    /\ IF \E p \in Pumps : pump[s][p] = "running"
         THEN /\ wsPc' = [wsPc EXCEPT ![s] = "draining"]
              /\ UNCHANGED <<active_websockets, ws_close_code,
                             ws_close_reason, wsInfo>>
         ELSE /\ wsPc' = [wsPc EXCEPT ![s] = TeardownPc(target_ws[s])]
              /\ Finally(s)
              /\ active_websockets' = Unregistered(s, FALSE)
    /\ UNCHANGED <<accepting_connections, http_client, shutdownInvoked,
                   wsCancel, wsStartedAfter, target_ws, inbound, closeCode,
                   frameVars, wsPath, wsRaised, wsWarning, target_close, pumpEnd,
                   httpVars, sdVars, cfgVars, clientsMade, lockVars>>

\* `await task` on the cancelled pump raises CancelledError, swallowed by
\* `except asyncio.CancelledError: pass`.  A cancel() of the session task
\* itself that arrived during this await cancels the same awaited pump task
\* and surfaces as that same CancelledError: it is swallowed with it.
WsDrained(s) ==
    /\ wsPc[s] = "draining"
    /\ \A p \in Pumps : pump[s][p] # "cancelling"
    /\ wsCancel' = [wsCancel EXCEPT ![s] = FALSE]
    /\ wsPc' = [wsPc EXCEPT ![s] = TeardownPc(target_ws[s])]
    /\ Finally(s)
    /\ active_websockets' = Unregistered(s, FALSE)
    /\ UNCHANGED <<accepting_connections, http_client, shutdownInvoked,
                   wsStartedAfter, pump, target_ws, inbound, closeCode,
                   frameVars, wsPath, wsRaised, wsWarning, target_close, pumpEnd,
                   httpVars, sdVars, cfgVars, clientsMade, lockVars>>

\* CancelledError is raised at `await asyncio.wait(...)`: no except clause
\* catches it (it is a BaseException), the finally block runs.  The pump
\* tasks are not cancelled on this path.
WsCancelledWaiting(s) ==
    /\ wsPc[s] = "waiting"
    /\ wsCancel[s]
    /\ wsCancel' = [wsCancel EXCEPT ![s] = FALSE]
    /\ wsPc' = [wsPc EXCEPT ![s] = TeardownPc(target_ws[s])]
    /\ Finally(s)
    /\ active_websockets' = Unregistered(s, TRUE)
    /\ UNCHANGED <<accepting_connections, http_client, shutdownInvoked,
                   wsStartedAfter, pump, target_ws, inbound, closeCode,
                   frameVars, wsPath, wsRaised, wsWarning, target_close, pumpEnd,
                   httpVars, sdVars, cfgVars, clientsMade, lockVars>>

\* `await target_ws.close()` returns (or raises an Exception, swallowed).
WsTargetClosed(s) ==
    /\ wsPc[s] = "closingTarget"
    /\ ~wsCancel[s]
    /\ target_ws' = [target_ws EXCEPT ![s] = "closed"]
    /\ wsPc' = [wsPc EXCEPT ![s] = "closingClient"]
    /\ UNCHANGED <<accepting_connections, active_websockets, http_client,
                   shutdownInvoked, wsCancel, wsStartedAfter, pump, inbound,
                   closeCode, frameVars, logVars, codeVars, httpVars, sdVars,
                   cfgVars, clientsMade, lockVars>>

\* `await websocket.close()` returns (or raises an Exception, swallowed):
\* the handler returns.
WsClientClosed(s) ==
    /\ wsPc[s] = "closingClient"
    /\ ~wsCancel[s]
    /\ inbound' = [inbound EXCEPT ![s] = "closed"]
    /\ closeCode' = [closeCode EXCEPT ![s] = 1000]
    /\ wsPc' = [wsPc EXCEPT ![s] = "returned"]
    /\ UNCHANGED <<accepting_connections, active_websockets, http_client,
                   shutdownInvoked, wsCancel, wsStartedAfter, pump, target_ws,
                   frameVars, logVars, codeVars, httpVars, sdVars,
                   cfgVars, clientsMade, lockVars>>

\* A further cancel() is delivered while the finally block awaits one of
\* its two close() calls: CancelledError passes `except Exception` and ends
\* the task; what the interrupted close() had not done stays undone.
WsCancelledTeardown(s) ==
    /\ wsPc[s] \in {"closingTarget", "closingClient"}
    /\ wsCancel[s]
    /\ wsCancel' = [wsCancel EXCEPT ![s] = FALSE]
    /\ wsPc' = [wsPc EXCEPT ![s] = "cancelled"]
    /\ UNCHANGED <<accepting_connections, active_websockets, http_client,
                   shutdownInvoked, wsStartedAfter, pump, target_ws, inbound,
                   closeCode, frameVars, logVars, codeVars, httpVars, sdVars,
                   cfgVars, clientsMade, lockVars>>


\* ------------------------------------------------------- routing by prefix
\* Faulty variant: the prefix must end at a path boundary.
GetTargetUrlAtBoundary(path) ==
    IF /\ StartsWith(path, api_prefix)
       /\ (Len(path) = Len(api_prefix) \/ path[Len(api_prefix) + 1] = "/")
      THEN "BACKEND" ELSE "FRONTEND"

\* _get_target_url: the backend base URL for a path that starts with the
\* prefix, the frontend base URL otherwise.
GetTargetUrl(path) ==
    IF StartsWith(path, api_prefix) THEN "BACKEND" ELSE "FRONTEND"

\* The frontend_url and backend_url arguments of the constructor; the text
\* before the path is one element (a trailing "/" would be one of its own).
FrontendUrlArg == <<"http://localhost:5173">>
BackendUrlArg == <<"http://localhost:8000">>

\* self.frontend_url, self.backend_url
frontend_url == RStripSlash(FrontendUrlArg)
backend_url == RStripSlash(BackendUrlArg)

\* The base URL that _get_target_url returns.
BaseUrl(target) == IF target = "BACKEND" THEN backend_url ELSE frontend_url

\* Faulty variant: the "?" is appended whether or not there is a query.
TargetUrlAlwaysQuery(path, query) ==
    BaseUrl(GetTargetUrl(path)) \o path \o <<"?">> \o query

\* target_url = f"{target_base}{path}", then f"{target_url}?{query_string}"
\* when the query string is not empty.
TargetUrl(path, query) ==
    LET target_url == BaseUrl(GetTargetUrl(path)) \o path
    IN  IF query # <<>> THEN target_url \o <<"?">> \o query ELSE target_url

\* _is_api_route
IsApiRoute(path) == StartsWith(path, api_prefix)

\* Faulty variant: every target is named "ui".
TargetNameAlwaysUi(path) == "ui"

\* _get_target_name
TargetName(path) == IF IsApiRoute(path) THEN "api" ELSE "ui"

\* ------------------------------------------------------------------ logging
\* `ch in s`
HasChar(s, ch) == \E i \in DOMAIN s : s[i] = ch

\* s.split(ch)[-1], s.rsplit(ch, 1)[-1]: what follows the last ch of s, s
\* itself when it has none.
AfterLast(s, ch) ==
    IF HasChar(s, ch)
      THEN LET i == CHOOSE j \in DOMAIN s :
                      s[j] = ch /\ \A k \in DOMAIN s : s[k] = ch => k <= j
           IN  SubSeq(s, i + 1, Len(s))
      ELSE s

AlnumChars ==
    {"a", "b", "c", "d", "e", "f", "g", "h", "i", "j", "k", "l", "m", "n",
     "o", "p", "q", "r", "s", "t", "u", "v", "w", "x", "y", "z",
     "A", "B", "C", "D", "E", "F", "G", "H", "I", "J", "K", "L", "M", "N",
     "O", "P", "Q", "R", "S", "T", "U", "V", "W", "X", "Y", "Z",
     "0", "1", "2", "3", "4", "5", "6", "7", "8", "9"}

\* str.isalnum(): at least one character, and every character alphanumeric.
IsAlnum(s) == s # <<>> /\ \A i \in DOMAIN s : s[i] \in AlnumChars

\* The longest extension _is_file_path takes for a file's.
MaxExtLen == 10

\* _is_file_path
IsFilePath(path) ==
    LET last_segment == IF HasChar(path, "/")
                          THEN AfterLast(RStripSlash(path), "/")
                          ELSE path
        ext == AfterLast(last_segment, ".")
    IN  IF HasChar(last_segment, ".")
          THEN IsAlnum(ext) /\ Len(ext) <= MaxExtLen
          ELSE FALSE

\* Both log functions return before logging for a UI path that looks like
\* a file.
LogSkipped(path) == TargetName(path) = "ui" /\ IsFilePath(path)

\* _log_request: the log after the call, an info line unless skipped.
LogRequest(log, path, status) ==
    IF LogSkipped(path)
      THEN log
      ELSE Append(log, [level |-> "info", status |-> status])

\* _log_request_error: the log after the call, a warning line unless skipped.
LogRequestError(log, path, status) ==
    IF LogSkipped(path)
      THEN log
      ELSE Append(log, [level |-> "warning", status |-> status])

\* ------------------------------------------------------------------ headers
HopByHop ==
    {<<"c", "o", "n", "n", "e", "c", "t", "i", "o", "n">>,
     <<"k", "e", "e", "p", "-", "a", "l", "i", "v", "e">>,
     <<"p", "r", "o", "x", "y", "-", "a", "u", "t", "h", "e", "n", "t", "i", "c", "a", "t", "e">>,
     <<"p", "r", "o", "x", "y", "-", "a", "u", "t", "h", "o", "r", "i", "z", "a", "t", "i", "o", "n">>,
     <<"t", "e">>,
     <<"t", "r", "a", "i", "l", "e", "r", "s">>,
     <<"t", "r", "a", "n", "s", "f", "e", "r", "-", "e", "n", "c", "o", "d", "i", "n", "g">>,
     <<"u", "p", "g", "r", "a", "d", "e">>}

HostName == <<"h", "o", "s", "t">>
XForwardedFor == <<"x", "-", "f", "o", "r", "w", "a", "r", "d", "e", "d", "-", "f", "o", "r">>
XForwardedProto == <<"x", "-", "f", "o", "r", "w", "a", "r", "d", "e", "d", "-", "p", "r", "o", "t", "o">>
XForwardedHost == <<"x", "-", "f", "o", "r", "w", "a", "r", "d", "e", "d", "-", "h", "o", "s", "t">>
\* APX_DEV_PROXY_HEADER
ApxDevProxyHeader == <<"x", "-", "a", "p", "x", "-", "d", "e", "v", "-", "p", "r", "o", "x", "y">>

\* Faulty variant: the names are compared as sent, without lower().
KeptRequestHeadersAsSent(h) ==
    [k \in {n \in DOMAIN h : n \notin HopByHop /\ n # HostName} |-> h[k]]

\* The dict comprehension over request.headers.items(): a header is copied
\* unless its lowered name is hop-by-hop or "host".
KeptRequestHeaders(h) ==
    [k \in {n \in DOMAIN h : Lower(n) \notin HopByHop /\ Lower(n) # HostName}
       |-> h[k]]

\* request.headers.get("host", "")
HostValue(h) == IF HostName \in DOMAIN h THEN h[HostName] ELSE ""

\* client_host = request.client.host if request.client else "unknown"
ClientHost(conn) == IF conn.client = "none" THEN "unknown" ELSE conn.client

\* Faulty variant: a header the client sent keeps its value where the proxy
\* assigns one of its own.
OutboundHeadersClientFirst(path, h, conn) ==
    LET forwarded == KeptRequestHeaders(h)
                       @@ (XForwardedFor :> ClientHost(conn))
                       @@ (XForwardedProto :> conn.scheme)
                       @@ (XForwardedHost :> HostValue(h))
    IN  IF ~IsApiRoute(path)
          THEN forwarded @@ (ApxDevProxyHeader :> "true")
          ELSE forwarded

\* The headers of the outbound request: the kept ones, then the x-forwarded-*
\* assignments, then the dev-proxy marker for a path that is no API route.
\* An assignment replaces what the dict holds under the same key.
OutboundHeaders(path, h, conn) ==
    LET forwarded == (XForwardedFor :> ClientHost(conn))
                       @@ (XForwardedProto :> conn.scheme)
                       @@ (XForwardedHost :> HostValue(h))
                       @@ KeptRequestHeaders(h)
    IN  IF ~IsApiRoute(path)
          THEN (ApxDevProxyHeader :> "true") @@ forwarded
          ELSE forwarded

\* The loop over response.headers.multi_items(): a header is copied unless
\* its lowered name is hop-by-hop.
KeptResponseHeaders(rh) ==
    [k \in {n \in DOMAIN rh : Lower(n) \notin HopByHop} |-> rh[k]]

\* ------------------------------------------- proxy_http, proxy_http_streaming
HttpOps == {"forward", "forwardStreaming"}
Failures == {"connect_error", "timeout", "other_error"}

\* The response returned when the gate is found closed.
GateResponse(op) == [status |-> 503, body |-> <<"Server is shutting down">>]

\* The except clauses of the two operations.  proxy_http catches
\* httpx.ConnectError, httpx.TimeoutException and Exception;
\* proxy_http_streaming catches httpx.ConnectError and Exception only.
ErrorResponse(op, failure, path) ==
    IF op = "forward"
      THEN CASE failure = "connect_error" ->
                  [status |-> 502,
                   body |-> <<"Failed to connect to ", TargetName(path), " server">>]
             [] failure = "timeout" ->
                  [status |-> 504, body |-> <<"Request timed out">>]
             [] OTHER ->
                  [status |-> 500, body |-> <<"Proxy error: ", failure>>]
      ELSE CASE failure = "connect_error" ->
                  [status |-> 502,
                   body |-> <<"Failed to connect to ", TargetName(path), " server">>]
             [] OTHER ->
                  [status |-> 500, body |-> <<"Proxy error: ", failure>>]

\* Faulty variant: _get_http_client makes a client at every call.
NeedsClientAlways == TRUE

\* _get_http_client: `if self._http_client is None or
\* self._http_client.is_closed`.
NeedsClient == http_client \in {"none", "closed"}

\* _get_http_client: a new client when none exists or the one held is closed.
ClientAfterGet == IF NeedsClient THEN "open" ELSE http_client

\* The clients made so far, once _get_http_client has returned.
ClientsMadeAfterGet == IF NeedsClient THEN clientsMade + 1 ELSE clientsMade

\* The call returns `r` (a status and a body) with the headers `hdrs`.
Returns(c, r, hdrs) ==
    /\ httpStatus' = [httpStatus EXCEPT ![c] = r.status]
    /\ httpBody' = [httpBody EXCEPT ![c] = r.body]
    /\ respHeaders' = [respHeaders EXCEPT ![c] = hdrs]

\* Entry: the gate is read before any await.  Gate closed: 503.  Gate open:
\* the outbound request is prepared, the pooled client obtained (no wait),
\* and the handler waits in `await request.body()`.
HttpStart(c, op, path, h, q, b, conn) ==
    /\ httpPc[c] = "idle"
    /\ httpConn' = [httpConn EXCEPT ![c] = conn]
    /\ httpOp' = [httpOp EXCEPT ![c] = op]
    /\ httpPath' = [httpPath EXCEPT ![c] = path]
    /\ httpHeaders' = [httpHeaders EXCEPT ![c] = h]
    /\ httpQuery' = [httpQuery EXCEPT ![c] = q]
    /\ reqBody' = [reqBody EXCEPT ![c] = b]
    /\ httpStartedAfter' = [httpStartedAfter EXCEPT ![c] = shutdownInvoked]
    /\ IF ~accepting_connections
         THEN /\ Returns(c, GateResponse(op), NoHeaders)
              /\ httpLog' = [httpLog EXCEPT ![c] =
                               LogRequestError(@, path, GateResponse(op).status)]
              /\ httpFailure' = [httpFailure EXCEPT ![c] = "gate"]
              /\ httpPc' = [httpPc EXCEPT ![c] = "done"]
              /\ UNCHANGED <<http_client, clientsMade, upTarget, upUrl,
                             upHeaders>>
         ELSE /\ upTarget' = [upTarget EXCEPT ![c] = GetTargetUrl(path)]
              /\ upUrl' = [upUrl EXCEPT ![c] = TargetUrl(path, q)]
              /\ upHeaders' = [upHeaders EXCEPT ![c] = OutboundHeaders(path, h, conn)]
              /\ http_client' = ClientAfterGet
              /\ clientsMade' = ClientsMadeAfterGet
              /\ httpPc' = [httpPc EXCEPT ![c] = "body"]
              /\ UNCHANGED <<httpFailure, httpStatus, httpBody, respHeaders,
                             httpLog>>
    /\ UNCHANGED <<accepting_connections, active_websockets, shutdownInvoked,
                   wsVars, upBody, upstreamHeaders, upstreamStatus,
                   upstreamBody, upResp, httpFault, sdVars, cfgVars, lockVars>>

\* What stops the call when request.body() returns: a failure to read the
\* body, or the client obtained at entry having been closed in the meantime
\* (httpx refuses the request with RuntimeError).
BodyReadFailure(bodyOk) == IF bodyOk THEN "client_closed" ELSE "other_error"

\* request.body() returns and the request is handed to the client obtained
\* at entry; a client closed in the meantime refuses it (RuntimeError), and a
\* failure to read the body is an Exception too: both reach `except Exception`.
HttpBodyRead(c, bodyOk) ==
    /\ httpPc[c] = "body"
    /\ IF bodyOk /\ http_client = "open"
         THEN /\ httpPc' = [httpPc EXCEPT ![c] = "upstream"]
              /\ upBody' = [upBody EXCEPT ![c] = reqBody[c]]
              /\ UNCHANGED <<httpFailure, httpStatus, httpBody, respHeaders,
                             httpLog>>
         ELSE /\ httpPc' = [httpPc EXCEPT ![c] = "done"]
              /\ httpFailure' = [httpFailure EXCEPT ![c] = BodyReadFailure(bodyOk)]
              /\ UNCHANGED upBody
              /\ httpLog' = [httpLog EXCEPT ![c] =
                    LogRequestError(@, httpPath[c],
                      ErrorResponse(httpOp[c], BodyReadFailure(bodyOk),
                                    httpPath[c]).status)]
              /\ Returns(c, ErrorResponse(httpOp[c], BodyReadFailure(bodyOk),
                                        httpPath[c]),
                         NoHeaders)
    /\ UNCHANGED <<accepting_connections, active_websockets, http_client,
                   shutdownInvoked, wsVars, httpOp, httpPath, httpHeaders,
                   httpQuery, reqBody, httpConn, upUrl, httpStartedAfter, upTarget,
                   upHeaders, upstreamHeaders, upstreamStatus, upstreamBody,
                   upResp, httpFault, sdVars, cfgVars, clientsMade, lockVars>>

\* response.content (proxy_http) and response.aiter_bytes()
\* (proxy_http_streaming): httpx hands out the body decoded according to the
\* response's Content-Encoding header, the bytes as sent only without one.
ResponseContent(ans) ==
    IF \E n \in DOMAIN ans.headers :
         Lower(n) = Lower(ContentEncoding) /\ ans.headers[n] = "gzip"
      THEN Gunzip(ans.body)
      ELSE ans.body

\* The response object when the client hands it over: client.request has
\* read and closed it, client.send(req, stream=True) leaves it open.
ResponseAfterSend(op) == IF op = "forward" THEN "closed" ELSE "open"

\* The upstream answers with `ans`: proxy_http returns the buffered
\* response, proxy_http_streaming a StreamingResponse whose body is yet to
\* flow.  The status is response.status_code, the body response.content.
HttpAnswered(c, ans) ==
    /\ httpPc[c] = "upstream"
    /\ upstreamHeaders' = [upstreamHeaders EXCEPT ![c] = ans.headers]
    /\ upstreamStatus' = [upstreamStatus EXCEPT ![c] = ans.status]
    /\ upstreamBody' = [upstreamBody EXCEPT ![c] = ans.body]
    /\ upResp' = [upResp EXCEPT ![c] = ResponseAfterSend(httpOp[c])]
    /\ httpLog' = [httpLog EXCEPT ![c] = LogRequest(@, httpPath[c], ans.status)]
    /\ Returns(c, [status |-> ans.status, body |-> ResponseContent(ans)],
               KeptResponseHeaders(ans.headers))
    /\ httpPc' = [httpPc EXCEPT ![c] =
                    IF httpOp[c] = "forward" THEN "done" ELSE "streaming"]
    /\ UNCHANGED <<accepting_connections, active_websockets, http_client,
                   shutdownInvoked, wsVars, httpOp, httpPath, httpHeaders,
                   httpQuery, reqBody, httpConn, upUrl, httpStartedAfter, httpFailure,
                   upTarget, upHeaders, upBody, httpFault, sdVars, cfgVars, clientsMade, lockVars>>

\* client.request / client.send raises: the except clauses build the response.
HttpFailed(c, failure) ==
    /\ httpPc[c] = "upstream"
    /\ httpFailure' = [httpFailure EXCEPT ![c] = failure]
    /\ httpLog' = [httpLog EXCEPT ![c] =
          LogRequestError(@, httpPath[c],
                          ErrorResponse(httpOp[c], failure, httpPath[c]).status)]
    /\ Returns(c, ErrorResponse(httpOp[c], failure, httpPath[c]), NoHeaders)
    /\ httpPc' = [httpPc EXCEPT ![c] = "done"]
    /\ UNCHANGED <<accepting_connections, active_websockets, http_client,
                   shutdownInvoked, wsVars, httpOp, httpPath, httpHeaders,
                   httpQuery, reqBody, httpConn, upUrl, httpStartedAfter, upTarget,
                   upHeaders, upBody, upstreamHeaders, upstreamStatus,
                   upstreamBody, upResp, httpFault, sdVars, cfgVars, clientsMade, lockVars>>

\* The upstream answers with `ans`, and building the response to the caller
\* raises (the Response constructor encodes the copied headers as latin-1,
\* which a header value the upstream sent in UTF-8 may not allow): the
\* exception is raised inside the try block and `except Exception` returns
\* 500.  No handler closes the response object.
HttpAnswerUnusable(c, ans) ==
    /\ httpPc[c] = "upstream"
    /\ upstreamHeaders' = [upstreamHeaders EXCEPT ![c] = ans.headers]
    /\ upstreamStatus' = [upstreamStatus EXCEPT ![c] = ans.status]
    /\ upstreamBody' = [upstreamBody EXCEPT ![c] = ans.body]
    /\ upResp' = [upResp EXCEPT ![c] = ResponseAfterSend(httpOp[c])]
    /\ httpFailure' = [httpFailure EXCEPT ![c] = "other_error"]
    /\ httpLog' = [httpLog EXCEPT ![c] =
          LogRequestError(LogRequest(@, httpPath[c], ans.status), httpPath[c],
            ErrorResponse(httpOp[c], "other_error", httpPath[c]).status)]
    /\ Returns(c, ErrorResponse(httpOp[c], "other_error", httpPath[c]), NoHeaders)
    /\ httpPc' = [httpPc EXCEPT ![c] = "done"]
    /\ UNCHANGED <<accepting_connections, active_websockets, http_client,
                   shutdownInvoked, wsVars, httpOp, httpPath, httpHeaders,
                   httpQuery, reqBody, httpConn, upUrl, httpStartedAfter, upTarget,
                   upHeaders, upBody, httpFault, sdVars, cfgVars, clientsMade, lockVars>>

\* The response object once the caller has gone away.  A generator that has
\* started is closed at its `yield`, its finally block runs aclose(); a
\* generator that was never started has no code to run when it is dropped.
ResponseAfterDisconnect(started, resp) == IF started THEN "closed" ELSE resp

\* The caller of a streaming call disconnects, after stream_response() has
\* started to run or before.
HttpStreamDropped(c, started) ==
    /\ httpPc[c] = "streaming"
    /\ httpPc' = [httpPc EXCEPT ![c] = "done"]
    /\ httpFailure' = [httpFailure EXCEPT ![c] = "disconnect"]
    /\ upResp' = [upResp EXCEPT ![c] = ResponseAfterDisconnect(started, @)]
    /\ UNCHANGED <<accepting_connections, active_websockets, http_client,
                   shutdownInvoked, wsVars, httpOp, httpPath, httpHeaders,
                   httpQuery, reqBody, httpConn, upUrl, httpStartedAfter, upTarget,
                   upHeaders, upBody, upstreamHeaders, upstreamStatus,
                   upstreamBody, httpStatus, httpBody, respHeaders, httpFault,
                   httpLog, sdVars, cfgVars, clientsMade, lockVars>>

\* The body of a StreamingResponse ends.  stream_response() has a finally
\* (it closes the upstream response) and no except: when aiter_bytes()
\* raises, the exception leaves the generator and reaches the caller.
HttpStreamEnd(c, streamOk) ==
    /\ httpPc[c] = "streaming"
    /\ httpPc' = [httpPc EXCEPT ![c] = "done"]
    /\ upResp' = [upResp EXCEPT ![c] = "closed"]
    /\ httpFailure' = [httpFailure EXCEPT ![c] =
                         IF streamOk THEN "none" ELSE "stream_error"]
    /\ httpFault' = [httpFault EXCEPT ![c] = ~streamOk]
    /\ UNCHANGED <<accepting_connections, active_websockets, http_client,
                   shutdownInvoked, wsVars, httpOp, httpPath, httpHeaders,
                   httpQuery, reqBody, httpConn, upUrl, httpStartedAfter, upTarget,
                   upHeaders, upBody, upstreamHeaders, upstreamStatus,
                   upstreamBody, httpStatus, httpBody, respHeaders, httpLog,
                   sdVars, cfgVars, clientsMade, lockVars>>

\* The caller has its response; the next request arrives as a new call.
HttpNext(c) ==
    /\ httpPc[c] = "done"
    /\ httpPc' = [httpPc EXCEPT ![c] = "idle"]
    /\ httpOp' = [httpOp EXCEPT ![c] = "forward"]
    /\ httpPath' = [httpPath EXCEPT ![c] = <<>>]
    /\ httpHeaders' = [httpHeaders EXCEPT ![c] = NoHeaders]
    /\ httpQuery' = [httpQuery EXCEPT ![c] = NoQuery]
    /\ reqBody' = [reqBody EXCEPT ![c] = NoBody]
    /\ httpConn' = [httpConn EXCEPT ![c] = LocalConn]
    /\ upUrl' = [upUrl EXCEPT ![c] = <<>>]
    /\ upBody' = [upBody EXCEPT ![c] = NoBody]
    /\ upstreamStatus' = [upstreamStatus EXCEPT ![c] = 0]
    /\ upstreamBody' = [upstreamBody EXCEPT ![c] = NoBody]
    /\ upResp' = [upResp EXCEPT ![c] = "none"]
    /\ httpStartedAfter' = [httpStartedAfter EXCEPT ![c] = FALSE]
    /\ httpFailure' = [httpFailure EXCEPT ![c] = "none"]
    /\ upTarget' = [upTarget EXCEPT ![c] = "none"]
    /\ upHeaders' = [upHeaders EXCEPT ![c] = NoHeaders]
    /\ upstreamHeaders' = [upstreamHeaders EXCEPT ![c] = NoHeaders]
    /\ httpStatus' = [httpStatus EXCEPT ![c] = 0]
    /\ httpBody' = [httpBody EXCEPT ![c] = <<>>]
    /\ respHeaders' = [respHeaders EXCEPT ![c] = NoHeaders]
    /\ httpFault' = [httpFault EXCEPT ![c] = FALSE]
    /\ httpLog' = [httpLog EXCEPT ![c] = <<>>]
    /\ UNCHANGED <<accepting_connections, active_websockets, http_client,
                   shutdownInvoked, wsVars, sdVars, cfgVars, clientsMade, lockVars>>

\* ------------------------------------------------------------------ shutdown
\* Faulty variant: shutdown leaves the gate as it finds it.
GateLeftOpen == accepting_connections

\* Faulty variant: shutdown flips the gate.
GateToggled == ~accepting_connections

\* self.accepting_connections = False
GateAfterShutdown == FALSE

\* Faulty variant: aclose() is called whatever the state of the client.
CloseHttpClientUnguarded(k) ==
    /\ http_client' = "closed"
    /\ clientCloses' = clientCloses + 1
    /\ sdPc' = [sdPc EXCEPT ![k] = "closing"]
    /\ UNCHANGED sdTasks

\* Faulty variant: only `if self._http_client:`, without the is_closed test.
CloseHttpClientIfPresent(k) ==
    IF http_client # "none"
      THEN /\ http_client' = "closed"
           /\ clientCloses' = clientCloses + 1
           /\ sdPc' = [sdPc EXCEPT ![k] = "closing"]
           /\ UNCHANGED sdTasks
      ELSE /\ UNCHANGED <<http_client, clientCloses>>
           /\ sdPc' = [sdPc EXCEPT ![k] = "done"]
           /\ sdTasks' = [sdTasks EXCEPT ![k] = {}]

\* `if self._http_client and not self._http_client.is_closed:
\*      await self._http_client.aclose()`: aclose() marks the client closed
\* at once and then waits for its transport; with no open client shutdown
\* logs and returns (its local `tasks` is gone).
CloseHttpClient(k) ==
    IF http_client = "open"
      THEN /\ http_client' = "closed"
           /\ clientCloses' = clientCloses + 1
           /\ sdPc' = [sdPc EXCEPT ![k] = "closing"]
           /\ UNCHANGED sdTasks
      ELSE /\ UNCHANGED <<http_client, clientCloses>>
           /\ sdPc' = [sdPc EXCEPT ![k] = "done"]
           /\ sdTasks' = [sdTasks EXCEPT ![k] = {}]

\* Faulty variant: every session task that has begun and not finished is
\* cancelled, in the copy or not.
CancelEverySession(tasks) ==
    [s \in DOMAIN wsPc |-> IF wsPc[s] \notin WsFinished \cup {"idle"}
                          THEN TRUE ELSE wsCancel[s]]

\* Faulty variant: no task is cancelled.
CancelNothing(tasks) == wsCancel

\* task.cancel() for every task of `tasks` that has not finished.
CancelRequested(tasks) ==
    [s \in DOMAIN wsPc |-> IF s \in tasks /\ wsPc[s] \notin WsFinished
                          THEN TRUE ELSE wsCancel[s]]

\* shutdown() up to its first wait: the gate is closed, the registry is
\* copied under the lock, every task of the copy is cancelled and shutdown
\* waits in wait_for(gather(*tasks)); with an empty copy it goes on to the
\* client.
ShutdownStart(k) ==
    /\ sdPc[k] = "idle"
    /\ accepting_connections' = GateAfterShutdown
    /\ shutdownInvoked' = TRUE
    /\ sdAfterReturn' = [sdAfterReturn EXCEPT ![k] =
                           \E j \in DOMAIN sdPc : sdPc[j] = "done"]
    /\ IF active_websockets # {}
         THEN /\ sdTasks' = [sdTasks EXCEPT ![k] = active_websockets]
              /\ wsCancel' = CancelRequested(active_websockets)
              /\ sdPc' = [sdPc EXCEPT ![k] = "gathering"]
              /\ UNCHANGED <<http_client, clientCloses>>
         ELSE /\ CloseHttpClient(k)
              /\ UNCHANGED wsCancel
    /\ UNCHANGED <<active_websockets, wsPc, wsStartedAfter, pump, target_ws,
                   inbound, closeCode, frameVars, logVars, codeVars, httpVars, sdWarned, cfgVars, clientsMade, lockVars>>

\* gather() completes within the timeout: every task of the copy finished.
ShutdownGathered(k) ==
    /\ sdPc[k] = "gathering"
    /\ \A s \in sdTasks[k] : wsPc[s] \in WsFinished
    /\ CloseHttpClient(k)
    /\ UNCHANGED <<accepting_connections, active_websockets, shutdownInvoked,
                   wsVars, httpVars, sdWarned, sdAfterReturn, cfgVars, clientsMade, lockVars>>

\* The timeout (> 0) expires first: wait_for cancels the gather future,
\* which calls cancel() on every task of the copy again, and keeps waiting
\* until the gather future is done.  The tasks cancelled at the start have
\* run by then: their wake-ups were queued before the timer.
ShutdownTimeout(k) ==
    /\ sdPc[k] = "gathering"
    /\ \E s \in sdTasks[k] : wsPc[s] \notin WsFinished
    /\ \A s \in sdTasks[k] : ~wsCancel[s]
    /\ wsCancel' = CancelRequested(sdTasks[k])
    /\ sdPc' = [sdPc EXCEPT ![k] = "timedout"]
    /\ UNCHANGED <<accepting_connections, active_websockets, http_client,
                   shutdownInvoked, wsPc, wsStartedAfter, pump, target_ws,
                   inbound, closeCode, frameVars, logVars, codeVars, httpVars, sdTasks, sdWarned,
                   sdAfterReturn, clientCloses, cfgVars, clientsMade, lockVars>>

\* Every task of the copy has ended: wait_for raises TimeoutError, shutdown
\* logs the warning and goes on to the client.
ShutdownTimedOut(k) ==
    /\ sdPc[k] = "timedout"
    /\ \A s \in sdTasks[k] : wsPc[s] \in WsFinished
    /\ sdWarned' = [sdWarned EXCEPT ![k] = TRUE]
    /\ CloseHttpClient(k)
    /\ UNCHANGED <<accepting_connections, active_websockets, shutdownInvoked,
                   wsVars, httpVars, sdAfterReturn, cfgVars, clientsMade, lockVars>>

\* aclose() returns: self._http_client = None, shutdown returns.
ShutdownClientClosed(k) ==
    /\ sdPc[k] = "closing"
    /\ http_client' = "none"
    /\ sdPc' = [sdPc EXCEPT ![k] = "done"]
    /\ sdTasks' = [sdTasks EXCEPT ![k] = {}]
    /\ UNCHANGED <<accepting_connections, active_websockets, shutdownInvoked,
                   wsVars, httpVars, sdWarned, sdAfterReturn, clientCloses,
                   cfgVars, clientsMade, lockVars>>

\* --------------------------------------------------------- self._ws_lock
\* In the program a task runs from `async with self._ws_lock:` to the end of
\* the block without a suspension point, so the lock is free whenever a task
\* reaches it: the actions above take the block as part of one run.  The
\* actions below take the lock apart for the specification SpecLock, which
\* lets a task be suspended when it reaches the block and when it leaves it.
\* Those schedules contain the program's, and in them the lock is found
\* held and has to do its work.

\* The place of a task in its function.
TaskPc(t) == IF t.kind = "proxy_websocket" THEN wsPc[t.id] ELSE sdPc[t.id]

\* The task is neither inside a block of the lock nor queued for it.
Outside(t) ==
    /\ lockHolding[t] = "out"
    /\ \A i \in 1..Len(lockWaiters) : lockWaiters[i] # t

\* The task is inside the block and has not run its body yet.
InSection(t) == lockHolding[t] # "out" /\ lockHolding[t] = TaskPc(t)

\* The next statement of the task that can wait is `async with
\* self._ws_lock:`.  A session: when the dial ends (the registration if it
\* returned, the discard of the finally block if it raised), when
\* asyncio.wait is left by a cancellation or with no pump pending, and when
\* the cancelled pump has been awaited (the discard).  A shutdown() call: at
\* its start (the copy of the registry).
ReachesLock(t) ==
    IF t.kind = "proxy_websocket"
      THEN \/ wsPc[t.id] = "dialing"
           \/ /\ wsPc[t.id] = "waiting"
              /\ \/ wsCancel[t.id]
                 \/ \A p \in Pumps : pump[t.id][p] \in {"finished", "cancelled"}
           \/ /\ wsPc[t.id] = "draining"
              /\ \A p \in Pumps : pump[t.id][p] # "cancelling"
      ELSE sdPc[t.id] = "idle"

\* Faulty variant: acquire() does not look at the lock.
LockFreeAlways == TRUE

\* asyncio.Lock.acquire() returns at once when the lock is not held and no
\* task is queued for it.
LockFree == ~lockLocked /\ lockWaiters = <<>>

\* The task reaches `async with self._ws_lock:`.  It enters the block when
\* the lock is free, and queues for it otherwise.
LockArrive(t) ==
    /\ Outside(t)
    /\ ReachesLock(t)
    /\ IF LockFree
         THEN /\ lockLocked' = TRUE
              /\ lockHolding' = [lockHolding EXCEPT ![t] = TaskPc(t)]
              /\ UNCHANGED lockWaiters
         ELSE /\ lockWaiters' = Append(lockWaiters, t)
              /\ UNCHANGED <<lockLocked, lockHolding>>
    /\ UNCHANGED procVars

\* The lock has been released: the task at the head of the queue is woken
\* and enters the block.
LockWake(t) ==
    /\ lockWaiters # <<>>
    /\ t = Head(lockWaiters)
    /\ ~lockLocked
    /\ lockLocked' = TRUE
    /\ lockWaiters' = Tail(lockWaiters)
    /\ lockHolding' = [lockHolding EXCEPT ![t] = TaskPc(t)]
    /\ UNCHANGED procVars

\* The task leaves the block, its body done: `async with` releases the lock
\* (also when the body raised, and whether or not a cancel() of the task is
\* pending: none is delivered inside the block, which does not wait).
LockRelease(t) ==
    /\ lockHolding[t] # "out"
    /\ lockHolding[t] # TaskPc(t)
    /\ lockLocked' = FALSE
    /\ lockHolding' = [lockHolding EXCEPT ![t] = "out"]
    /\ UNCHANGED <<lockWaiters, procVars>>

\* ==================================================================== claims
\* C1: once shutdown() has been invoked, every forward / forwardStreaming
\* call started afterwards returns 503, and every WebSocket upgrade started
\* afterwards is closed with code 1001 and goes no further.
C1_RejectedAfterShutdown ==
    /\ \A c \in DOMAIN httpPc :
         (httpStartedAfter[c] /\ httpPc[c] # "idle") =>
           /\ httpPc[c] = "done"
           /\ httpStatus[c] = 503
    /\ \A s \in DOMAIN wsPc :
         wsStartedAfter[s] =>
           /\ wsPc[s] = "rejected"
           /\ inbound[s] = "closed"
           /\ closeCode[s] = 1001

\* C1 witness: while shutdown() still waits for a cancelled session, a call
\* and an upgrade that started after it have been turned away.
C1_Witness ==
    /\ \E k \in DOMAIN sdPc : sdPc[k] = "gathering"
    /\ \E c \in DOMAIN httpPc :
         httpStartedAfter[c] /\ httpOp[c] = "forwardStreaming" /\ httpStatus[c] = 503
    /\ \E s \in DOMAIN wsPc : wsStartedAfter[s] /\ closeCode[s] = 1001

\* C2: the gate starts true, no step sets it from false to true, and only a
\* starting shutdown() call changes it.
C2_GateOneWay ==
    /\ accepting_connections = TRUE
    /\ [][/\ (~accepting_connections => ~accepting_connections')
          /\ (accepting_connections' # accepting_connections =>
                \E k \in DOMAIN sdPc : sdPc[k] = "idle" /\ sdPc'[k] # "idle")]_vars

\* C2 witness: two shutdown() calls have returned, an HTTP call has run to
\* its end after the gate closed, and the gate is false.
C2_Witness ==
    /\ ~accepting_connections
    /\ \A k \in DOMAIN sdPc : sdPc[k] = "done"
    /\ Cardinality(DOMAIN sdPc) >= 2
    /\ \E c \in DOMAIN httpPc : httpPc[c] = "done" /\ httpStatus[c] = 200
    /\ \E s \in DOMAIN wsPc : wsPc[s] = "returned"

\* A session is open from the successful dial to the start of its teardown:
\* it waits for its pumps, or for the pump it cancelled.
OpenSessions == {s \in DOMAIN wsPc : wsPc[s] \in {"waiting", "draining"}}

\* C3: the size of the Connection Registry equals the number of open
\* WebSocket sessions, in every reachable state.
C3_RegistrySize ==
    Cardinality(active_websockets) = Cardinality(OpenSessions)

\* C3 witness: during a shutdown() one session is open and registered while
\* another one, cancelled, is already tearing down.
C3_Witness ==
    /\ \E k \in DOMAIN sdPc : sdPc[k] \in {"gathering", "timedout"}
    /\ \E s, t \in DOMAIN wsPc :
         /\ s \in active_websockets
         /\ wsPc[t] = "closingTarget"
         /\ pump[t]["forward_to_target"] = "running"

\* C4: when shutdown() returns, every session that was in the registry when
\* it took its copy has finished, and the registry is empty.
C4_ShutdownDrainsAll ==
    [][\A k \in DOMAIN sdPc :
         (sdPc[k] # "done" /\ sdPc'[k] = "done") =>
           /\ \A s \in sdTasks[k] : wsPc'[s] \in WsFinished
           /\ active_websockets' = {}]_vars

\* C5: a session task that has finished is not in the registry.
C5_FinishedNotRegistered ==
    \A s \in DOMAIN wsPc : wsPc[s] \in WsFinished => s \notin active_websockets

\* C5 witness: a session that had dialed (and so registered) was ended by a
\* second cancellation while it closed its upstream connection.
C5_Witness ==
    \E s \in DOMAIN wsPc :
      /\ wsPc[s] = "cancelled"
      /\ target_ws[s] = "open"
      /\ inbound[s] = "accepted"

\* C6: for the same failure both operations return the same status; a
\* timeout gives 504 "Request timed out" from either.
C6_SameErrorMapping ==
    \A c \in DOMAIN httpPc :
      (httpPc[c] = "done" /\ httpFailure[c] \in Failures) =>
        /\ httpStatus[c] =
             ErrorResponse("forward", httpFailure[c], httpPath[c]).status
        /\ httpFailure[c] = "timeout" =>
             /\ httpStatus[c] = 504
             /\ httpBody[c] = <<"Request timed out">>

\* C7: a refused or unreachable upstream gives 502 with the body "Failed to
\* connect to <target> server", <target> being "api" for a path resolved to
\* the backend and "ui" otherwise.
C7_ConnectFailure ==
    \A c \in DOMAIN httpPc :
      (httpPc[c] = "done" /\ httpFailure[c] = "connect_error") =>
        /\ httpStatus[c] = 502
        /\ httpBody[c] =
             <<"Failed to connect to ",
               IF upTarget[c] = "BACKEND" THEN "api" ELSE "ui",
               " server">>

\* C7 witness: /api/version under the prefix /api, backend down, streaming.
C7_Witness ==
    \E c \in DOMAIN httpPc :
      /\ api_prefix = DefaultApiPrefix
      /\ httpOp[c] = "forwardStreaming"
      /\ httpPath[c] = PathApiVersion
      /\ httpFailure[c] = "connect_error"
      /\ httpPc[c] = "done"

\* C8: no failure of a relay leaves it unhandled; a failure that is neither
\* a connect failure nor a timeout becomes a 500 response.
C8_NoFaultEscapes ==
    \A c \in DOMAIN httpPc :
      /\ ~httpFault[c]
      /\ (httpPc[c] = "done" /\ httpFailure[c] = "other_error") =>
           httpStatus[c] = 500

\* A header name that is hop-by-hop in some letter case.
IsHopByHop(n) ==
    \E m \in HopByHop :
      /\ Len(n) = Len(m)
      /\ \A i \in 1..Len(n) : LowerChar(n[i]) = m[i]

\* A header name that is "host" in some letter case.
IsHost(n) ==
    /\ Len(n) = Len(HostName)
    /\ \A i \in 1..Len(n) : LowerChar(n[i]) = HostName[i]

\* C9: no hop-by-hop header, in any letter case, is among the headers sent
\* upstream or returned downstream, and the Host header is not sent upstream.
C9_NoHopByHop ==
    \A c \in DOMAIN httpPc :
      /\ \A n \in DOMAIN upHeaders[c] : ~IsHopByHop(n) /\ ~IsHost(n)
      /\ \A n \in DOMAIN respHeaders[c] : ~IsHopByHop(n)

\* C9 witness: a streaming call that came with "TE" and "Host" got an answer
\* carrying "Connection" and "TRAILERS", and has returned it.
C9_Witness ==
    \E c \in DOMAIN httpPc :
      /\ httpOp[c] = "forwardStreaming"
      /\ httpPc[c] = "done"
      /\ httpStatus[c] = 200
      /\ DOMAIN httpHeaders[c] = {<<"T", "E">>, <<"H", "o", "s", "t">>}
      /\ DOMAIN upstreamHeaders[c] =
           {<<"C", "o", "n", "n", "e", "c", "t", "i", "o", "n">>,
            <<"T", "R", "A", "I", "L", "E", "R", "S">>}

\* The sequence of n slashes.
Slashes(n) == [i \in 1..n |-> "/"]

C11_PrefixBoundary ==
    \A c \in DOMAIN httpPc :
      (api_prefix = DefaultApiPrefix /\ upTarget[c] # "none") =>
        /\ httpPath[c] = PathApiVersion => upTarget[c] = "BACKEND"
        /\ httpPath[c] = PathRoot => upTarget[c] = "FRONTEND"
        /\ (/\ Len(httpPath[c]) > Len(api_prefix)
            /\ SubSeq(httpPath[c], 1, Len(api_prefix)) = api_prefix
            /\ httpPath[c][Len(api_prefix) + 1] # "/") =>
             upTarget[c] = "FRONTEND"

\* C12: the URL of every outbound request is the base URL of the upstream the
\* path resolves to, then the path as received, then "?" and the query string
\* as received when there is one.
C12_OutboundUrl ==
    \A c \in DOMAIN httpPc :
      upTarget[c] # "none" =>
        upUrl[c] =
          (IF upTarget[c] = "BACKEND" THEN <<"http://localhost:8000">>
                                      ELSE <<"http://localhost:5173">>)
            \o httpPath[c]
            \o (IF Len(httpQuery[c]) > 0 THEN <<"?">> \o httpQuery[c] ELSE <<>>)

\* C12 witness: GET /api/version, without a query string, has been sent to
\* http://localhost:8000/api/version and answered.
C12_Witness ==
    \E c \in DOMAIN httpPc :
      /\ httpPath[c] = PathApiVersion
      /\ httpQuery[c] = NoQuery
      /\ upUrl[c] = <<"http://localhost:8000">> \o PathApiVersion
      /\ httpPc[c] = "done"
      /\ httpStatus[c] = 200

\* C13: when the gate is open and the upstream answers, forward returns the
\* upstream's status and a body identical to the body the upstream sent; in
\* particular the caller of an echo upstream gets its own request body back.
C13_RoundTrip ==
    \A c \in DOMAIN httpPc :
      (httpOp[c] = "forward" /\ httpPc[c] = "done" /\ upstreamStatus[c] # 0) =>
        /\ httpStatus[c] = upstreamStatus[c]
        /\ httpBody[c] = upstreamBody[c]
        /\ upstreamBody[c] = upBody[c] => httpBody[c] = reqBody[c]

\* a is an initial part of b.
IsPrefix(a, b) == Len(a) <= Len(b) /\ SubSeq(b, 1, Len(a)) = a

\* C14: in each direction of each session the frames delivered to the far
\* side are, at every moment, an initial part of the frames received, frame
\* for frame; so when the upstream echoes, what the client has got is an
\* initial part of what it sent.
C14_FramesInOrder ==
    \A s \in DOMAIN wsPc :
      /\ \A p \in Pumps : IsPrefix(wsDelivered[s][p], wsReceived[s][p])
      /\ IsPrefix(wsReceived[s]["forward_to_client"],
                  wsDelivered[s]["forward_to_target"]) =>
           IsPrefix(wsDelivered[s]["forward_to_client"],
                    wsReceived[s]["forward_to_target"])

\* C14 witness: the client sent a text frame and then a binary frame, the
\* upstream echoed them, and the client has both back.
C14_Witness ==
    \E s \in DOMAIN wsPc :
      /\ wsReceived[s]["forward_to_target"] =
           <<[kind |-> "text", data |-> "a"], [kind |-> "bytes", data |-> "b"]>>
      /\ wsReceived[s]["forward_to_client"] = wsDelivered[s]["forward_to_target"]
      /\ Len(wsDelivered[s]["forward_to_client"]) = MaxFrames

\* C15: once a shutdown() call has returned, a further call leaves the gate
\* false, does not close the HTTP client again and makes no new one (the
\* client stays closed or absent), and with nothing registered it returns
\* without waiting.
C15_ShutdownIdempotent ==
    [][(\E j \in DOMAIN sdPc : sdPc[j] = "done") =>
         /\ ~accepting_connections'
         /\ clientCloses' = clientCloses
         /\ http_client' \in {"none", "closed"}
         /\ http_client' # http_client => http_client' = "none"
         /\ \A k \in DOMAIN sdPc :
              (sdPc[k] = "idle" /\ sdPc'[k] # "idle" /\ active_websockets = {}) =>
                sdPc'[k] = "done"]_vars

\* C15 witness: the first call closed the client and returned; the second
\* call, begun after that, has returned too.
C15_Witness ==
    /\ clientCloses = 1
    /\ \E k \in DOMAIN sdPc : sdAfterReturn[k] /\ sdPc[k] = "done"
    /\ \A k \in DOMAIN sdPc : sdPc[k] = "done"

\* C16: aclose() is only ever called on an open client, which it closes, and
\* at most once in all; a shutdown() call does not return with the client
\* open.
C16_ClientClosedOnce ==
    /\ [](clientCloses <= 1)
    /\ [][/\ clientCloses' # clientCloses =>
               /\ clientCloses' = clientCloses + 1
               /\ http_client = "open"
               /\ http_client' = "closed"
          /\ \A k \in DOMAIN sdPc :
               (sdPc[k] # "done" /\ sdPc'[k] = "done") => http_client' # "open"]_vars

\* C16 witness: a second shutdown() call began while the first one waited in
\* aclose(); both have returned, and the client was closed once.
C16_Witness ==
    /\ clientCloses = 1
    /\ http_client = "none"
    /\ \A k \in DOMAIN sdPc : sdPc[k] = "done" /\ ~sdAfterReturn[k]
    /\ Cardinality(DOMAIN sdPc) >= 2

\* C17: every shutdown() call that has begun returns; a call that logged the
\* timeout warning has still closed the HTTP client when it returns.
C17_ShutdownReturns ==
    /\ \A k \in ShutdownCalls : (sdPc[k] # "idle") ~> (sdPc[k] = "done")
    /\ [](\A k \in ShutdownCalls :
            (sdWarned[k] /\ sdPc[k] = "done") => http_client # "open")

\* C17 witness: a call whose wait timed out has logged the warning, closed
\* the client and returned.
C17_Witness ==
    \E k \in ShutdownCalls :
      /\ sdWarned[k]
      /\ sdPc[k] = "done"
      /\ clientCloses = 1
      /\ http_client = "none"

\* C18: no HTTP call that passed the gate is made to fail by shutdown(): none
\* ends because the pooled client was closed under it.
C18_HttpNotFailedByShutdown ==
    \A c \in DOMAIN httpPc :
      ~httpStartedAfter[c] => httpFailure[c] # "client_closed"

\* C19: a call answered 503 at the gate has prepared and sent no upstream
\* request; an upgrade closed with 1001 at the gate was not accepted, has no
\* upstream connection and no pumps, and its handler has returned.
C19_RejectedReachesNoUpstream ==
    [][/\ \A c \in DOMAIN httpPc :
            httpFailure'[c] = "gate" =>
              /\ httpPc[c] \in {"idle", "done"}
              /\ httpPc'[c] = "done"
              /\ httpStatus'[c] = 503
              /\ upTarget'[c] = "none"
              /\ upUrl'[c] = <<>>
              /\ upstreamStatus'[c] = 0
       /\ \A s \in DOMAIN wsPc :
            closeCode'[s] = 1001 =>
              /\ wsPc[s] \in {"idle", "rejected"}
              /\ wsPc'[s] = "rejected"
              /\ inbound[s] # "accepted"
              /\ inbound'[s] = "closed"
              /\ target_ws'[s] = "none"
              /\ \A p \in Pumps : pump'[s][p] = "none"
              /\ s \notin active_websockets']_vars

\* C19 witness: a streaming call and an upgrade have both been turned away
\* at the gate, and steps have been taken since.
C19_Witness ==
    /\ \E c \in DOMAIN httpPc :
         httpFailure[c] = "gate" /\ httpOp[c] = "forwardStreaming"
    /\ \E s \in DOMAIN wsPc : closeCode[s] = 1001
    /\ \A k \in DOMAIN sdPc : sdPc[k] = "done"

\* C20: when a streaming call is over, the upstream response it opened has
\* been closed.
C20_UpstreamResponseClosed ==
    \A c \in DOMAIN httpPc :
      (httpOp[c] = "forwardStreaming" /\ httpPc[c] = "done") =>
        upResp[c] # "open"

\* A session whose try block was left by an exception that only the last
\* clause, `except Exception`, handles.
EndedByUnexpected(s) ==
    /\ wsWarning[s] # <<>>
    /\ wsWarning[s][1] = "error"

\* C21: a session that an unexpected exception ended after its upgrade was
\* accepted has logged the type and the message of the exception, and once
\* it has returned the client has been closed with code 1011.
C21_UnexpectedClosedWith1011 ==
    \A s \in DOMAIN wsPc :
      EndedByUnexpected(s) =>
        /\ \E e \in DialErrors : wsWarning[s] = <<"error", e.type, e.msg>>
        /\ wsPc[s] = "returned" => closeCode[s] = 1011

\* Pump p of session s ends by an error in this step.
PumpErrorStep(s, p) ==
    /\ pump[s][p] = "running"
    /\ pump'[s][p] = "finished"
    /\ pumpEnd'[s][p] = "error"

\* C22: a step in which a pump ends by an error changes that pump only: the
\* other pump of the session, the session task itself (no exception reaches
\* it), every other session, the registry, the gate and the pooled client
\* are as before; and a session that finishes after such an error has
\* logged no warning.
C22_PumpErrorContained ==
    /\ [](\A s \in DOMAIN wsPc :
            (wsPc[s] \in WsFinished /\ \E p \in Pumps : pumpEnd[s][p] = "error")
              => wsWarning[s] = <<>>)
    /\ [][\A s \in DOMAIN wsPc, p \in Pumps :
            PumpErrorStep(s, p) =>
              /\ \A q \in Pumps \ {p} : pump'[s][q] = pump[s][q]
              /\ wsPc'[s] = wsPc[s]
              /\ wsWarning' = wsWarning
              /\ \A t \in DOMAIN wsPc \ {s} :
                   /\ wsPc'[t] = wsPc[t]
                   /\ wsCancel'[t] = wsCancel[t]
                   /\ pump'[t] = pump[t]
                   /\ target_ws'[t] = target_ws[t]
                   /\ inbound'[t] = inbound[t]
              /\ active_websockets' = active_websockets
              /\ accepting_connections' = accepting_connections
              /\ http_client' = http_client]_vars

\* C22 witness: a session has returned after an error ended one of its
\* pumps, while another session is still open with both pumps running and
\* the gate is open.
C22_Witness ==
    /\ accepting_connections
    /\ \E s, t \in DOMAIN wsPc :
         /\ s # t
         /\ wsPc[s] = "returned"
         /\ \E p \in Pumps : pumpEnd[s][p] = "error"
         /\ wsPc[t] = "waiting"
         /\ t \in active_websockets
         /\ \A q \in Pumps : pump[t][q] = "running"

\* A call for a static asset of the UI: the path resolves to the UI upstream
\* and its last segment has a short alphanumeric extension.
IsUiAsset(c) == TargetName(httpPath[c]) = "ui" /\ IsFilePath(httpPath[c])

\* The statuses of the error outcomes.
ErrorStatuses == {500, 502, 503, 504}

\* C23: a finished call for a static asset of the UI has logged no success
\* line, and when it ended with an error status (502, 503, 504, 500) it has
\* logged a warning with that status.
C23_AssetErrorsLogged ==
    \A c \in DOMAIN httpPc :
      (httpPc[c] = "done" /\ IsUiAsset(c)) =>
        /\ \A i \in DOMAIN httpLog[c] : httpLog[c][i].level # "info"
        /\ (httpFailure[c] # "none" /\ httpStatus[c] \in ErrorStatuses) =>
             \E i \in DOMAIN httpLog[c] :
               httpLog[c][i] = [level |-> "warning", status |-> httpStatus[c]]

\* C24: on every outbound request x-forwarded-for is the address of the
\* client's connection, x-forwarded-proto the inbound scheme and
\* x-forwarded-host the value of the inbound Host header, whatever the
\* client sent under those three names.
C24_ForwardedHeaders ==
    \A c \in DOMAIN httpPc :
      upTarget[c] # "none" =>
        /\ {XForwardedFor, XForwardedProto, XForwardedHost} \subseteq DOMAIN upHeaders[c]
        /\ httpConn[c].client # "none" =>
             upHeaders[c][XForwardedFor] = httpConn[c].client
        /\ upHeaders[c][XForwardedProto] = httpConn[c].scheme
        /\ HostName \in DOMAIN httpHeaders[c] =>
             upHeaders[c][XForwardedHost] = httpHeaders[c][HostName]

\* C24 witness: a request that arrived over https from 203.0.113.7 with a
\* Host header and with x-forwarded-* headers of the client's own has been
\* answered by the upstream.
C24_Witness ==
    \E c \in DOMAIN httpPc :
      /\ httpPc[c] = "done"
      /\ httpStatus[c] = 200
      /\ httpConn[c] = [client |-> "203.0.113.7", scheme |-> "https"]
      /\ {HostName, XForwardedFor, XForwardedProto, XForwardedHost}
           \subseteq DOMAIN httpHeaders[c]
      /\ httpHeaders[c][XForwardedFor] = "spoofed"
      /\ upHeaders[c][XForwardedFor] = "203.0.113.7"
      /\ upHeaders[c][XForwardedHost] = "dev.test:9000"

\* C25: every request sent to the UI upstream carries x-apx-dev-proxy with
\* the value "true", and no request sent to the API upstream carries the
\* header.
C25_MarkerForUiOnly ==
    \A c \in DOMAIN httpPc :
      /\ upTarget[c] = "FRONTEND" =>
           /\ ApxDevProxyHeader \in DOMAIN upHeaders[c]
           /\ upHeaders[c][ApxDevProxyHeader] = "true"
      /\ upTarget[c] = "BACKEND" => ApxDevProxyHeader \notin DOMAIN upHeaders[c]

\* C26: a session that waits for its upstream dial has had its upgrade
\* accepted, a session whose upgrade is still pending has no upstream
\* connection, and the dial starts in the step in which the accept returns.
C26_AcceptBeforeDial ==
    /\ [](\A s \in DOMAIN wsPc :
            /\ wsPc[s] = "dialing" => inbound[s] = "accepted"
            /\ inbound[s] = "pending" => target_ws[s] = "none")
    /\ [][\A s \in DOMAIN wsPc :
            (wsPc[s] # "dialing" /\ wsPc'[s] = "dialing") =>
              /\ wsPc[s] = "accepting"
              /\ inbound[s] = "pending"
              /\ inbound'[s] = "accepted"]_vars

\* C26 witness: a session that found the gate open waits for the dial, its
\* upgrade accepted and no upstream connection yet.
C26_Witness ==
    \E s \in DOMAIN wsPc :
      /\ wsPc[s] = "dialing"
      /\ ~wsStartedAfter[s]
      /\ inbound[s] = "accepted"
      /\ target_ws[s] = "none"

\* The words by which the warning names each class of dial failure.
FailureClassText(type) ==
    CASE type = "builtins.TimeoutError" -> "connection timeout after"
      [] type = "builtins.ConnectionRefusedError" -> "connection refused to"
      [] type = "socket.gaierror" -> "OS error connecting to"
      [] OTHER -> "error"

\* The dial of session s failed by a timeout, a refused connection or
\* another OS-level error.
DialFailed(s) ==
    wsRaised[s] \in {"builtins.TimeoutError", "builtins.ConnectionRefusedError",
                     "socket.gaierror"}

\* C27: a session whose dial failed (timeout, refused, other OS error) has
\* logged the warning of that class, has no upstream connection, has
\* started no pump, is not in the registry, goes on only to close the
\* client and return (it is never ended by an exception), and has closed
\* the client when it has returned.
C27_DialFailure ==
    \A s \in DOMAIN wsPc :
      DialFailed(s) =>
        /\ wsWarning[s] # <<>>
        /\ wsWarning[s][1] = FailureClassText(wsRaised[s])
        /\ target_ws[s] = "none"
        /\ \A p \in Pumps : pump[s][p] = "none"
        /\ s \notin active_websockets
        /\ wsPc[s] \in {"closingClient", "returned"}
        /\ wsPc[s] = "returned" => inbound[s] = "closed"

\* C27 witness: an API-bound session whose dial timed out and a shutdown()
\* call that began while it was closing its client have both returned.
C27_Witness ==
    \E s \in DOMAIN wsPc :
      /\ WsTargetName(wsPath[s]) = "api"
      /\ wsRaised[s] = "builtins.TimeoutError"
      /\ wsPc[s] = "returned"
      /\ inbound[s] = "closed"
      /\ ~wsStartedAfter[s]
      /\ \E k \in DOMAIN sdPc : sdPc[k] = "done"

\* A pump task that has terminated.
PumpDone == {"finished", "cancelled"}

\* C28: a session that dialed and has begun its teardown (or has finished)
\* has no pump still running or still being cancelled: teardown starts only
\* after both pumps have terminated.
C28_TeardownAfterPumps ==
    \A s \in DOMAIN wsPc :
      (target_ws[s] # "none"
         /\ wsPc[s] \in {"closingTarget", "closingClient", "returned", "cancelled"})
        => \A p \in Pumps : pump[s][p] \in PumpDone

\* The client disconnected or the upstream closed while session s was open:
\* a pump of s ended by the disconnect message, by the end of the upstream's
\* stream or by ConnectionClosed.
PeerEnded(s) ==
    \E p \in Pumps : pumpEnd[s][p] \in {"disconnect", "end", "ConnectionClosed"}

\* C29: a session whose client disconnected or whose upstream closed while
\* it was open ends closed: once its task has finished it has returned
\* without an exception, it is out of the registry, its upstream connection
\* and its inbound connection are closed, and it has logged no warning.
C29_PeerEndClosesSession ==
    \A s \in DOMAIN wsPc :
      (PeerEnded(s) /\ wsPc[s] \in WsFinished) =>
        /\ wsPc[s] = "returned"
        /\ s \notin active_websockets
        /\ target_ws[s] = "closed"
        /\ inbound[s] = "closed"
        /\ wsWarning[s] = <<>>

\* A pump of session s captured a close code.
PumpCaptured(s) ==
    \E p \in Pumps : pumpEnd[s][p] \in {"disconnect", "ConnectionClosed"}

\* Session s enters its finally block in this step.
TeardownStep(s) ==
    /\ wsPc[s] \in {"dialing", "waiting", "draining"}
    /\ wsPc'[s] \in {"closingTarget", "closingClient"}

\* C30: at the start of the teardown the session's close code and reason
\* are those a pump captured if a pump captured any; otherwise those the
\* upstream connection reports if the upstream was dialed; otherwise none,
\* and the close is logged as a plain "connection closed".  A UI session
\* logs the close line of the code so chosen.
C30_CloseCodePrecedence ==
    /\ [](\A s \in DOMAIN wsPc :
            wsPc[s] \in {"waiting", "draining"} =>
              (ws_close_code[s] # 0 <=> PumpCaptured(s)))
    /\ [][\A s \in DOMAIN wsPc :
            TeardownStep(s) =>
              /\ PumpCaptured(s) =>
                   /\ ws_close_code'[s] = ws_close_code[s]
                   /\ ws_close_reason'[s] = ws_close_reason[s]
              /\ (~PumpCaptured(s) /\ target_ws[s] # "none") =>
                   /\ ws_close_code'[s] = target_close[s].code
                   /\ ws_close_reason'[s] = target_close[s].reason
              /\ (~PumpCaptured(s) /\ target_ws[s] = "none") =>
                   ws_close_code'[s] = 0
              /\ WsTargetName(wsPath[s]) = "ui" =>
                   /\ Len(wsInfo'[s]) = Len(wsInfo[s]) + 1
                   /\ wsInfo'[s][Len(wsInfo'[s])] =
                        CASE ws_close_code'[s] = 0 -> <<"connection closed">>
                          [] ws_close_code'[s] = 1000 ->
                               <<"connection closed successfully">>
                          [] OTHER ->
                               <<"connection closed with code",
                                 ws_close_code'[s], ws_close_reason'[s]>>]_vars

\* C30 witness: in a UI session the client left with 1001 "bye" and the
\* upstream closed normally (1000) before the session resumed; the session
\* tears down with the code the pump captured.
C30_Witness ==
    \E s \in DOMAIN wsPc :
      /\ wsPc[s] = "closingTarget"
      /\ pumpEnd[s]["forward_to_target"] = "disconnect"
      /\ pumpEnd[s]["forward_to_client"] = "end"
      /\ target_close[s] = [code |-> 1000, reason |-> ""]
      /\ ws_close_code[s] = 1001
      /\ ws_close_reason[s] = "bye"
      /\ wsInfo[s] = <<<<"connection opened">>,
                       <<"connection closed with code", 1001, "bye">>>>


\* C31: once a pump of a session has recorded a close code and reason, no
\* later step of the session's wait replaces them: the record is that of the
\* side that detected the termination first.
C31_FirstCodeKept ==
    [][\A s \in DOMAIN wsPc :
         (wsPc[s] = "waiting" /\ PumpCaptured(s)) =>
           /\ ws_close_code'[s] = ws_close_code[s]
           /\ ws_close_reason'[s] = ws_close_reason[s]]_vars

\* C32: whatever ended an accepted session, once its task has finished the
\* upstream connection, if one was dialed, is closed and the inbound
\* connection is closed.
C32_TeardownInFull ==
    \A s \in DOMAIN wsPc :
      wsPc[s] \in {"returned", "cancelled"} =>
        /\ target_ws[s] \in {"none", "closed"}
        /\ inbound[s] = "closed"

\* The first words of the lines that report the close of a session.
CloseWords ==
    {"connection closed", "connection closed successfully",
     "connection closed with code"}

\* C33: an API-directed session logs no "connection opened" and no
\* "connection closed" line (its only info line is the rejection at the
\* gate, logged exactly when it is rejected), and it logs a warning when its
\* dial fails or the websockets package is missing; a UI-directed session
\* that opened has logged one open line and, from the start of its teardown
\* on, one close line after it, and nothing else.
C33_OpenCloseLoggedForUiOnly ==
    \A s \in DOMAIN wsPc :
      wsPc[s] # "idle" =>
        /\ WsTargetName(wsPath[s]) = "api" =>
             /\ wsInfo[s] = IF wsPc[s] = "rejected"
                              THEN <<<<"rejected (shutting down)">>>>
                              ELSE <<>>
             /\ wsRaised[s] # "none" =>
                  /\ wsWarning[s] # <<>>
                  /\ wsWarning[s][1] = FailureClassText(wsRaised[s])
             /\ (wsPc[s] = "returned" /\ target_ws[s] = "none"
                   /\ wsRaised[s] = "none") =>
                  wsWarning[s] = <<"failed (websockets not installed)">>
        /\ (WsTargetName(wsPath[s]) = "ui" /\ target_ws[s] # "none") =>
             IF wsPc[s] \in {"waiting", "draining"}
               THEN wsInfo[s] = <<<<"connection opened">>>>
               ELSE /\ Len(wsInfo[s]) = 2
                    /\ wsInfo[s][1] = <<"connection opened">>
                    /\ wsInfo[s][2][1] \in CloseWords

\* C33 witness: an API-directed session opened, was cancelled by shutdown()
\* and has returned with both connections closed, without an info line.
C33_Witness ==
    \E s \in DOMAIN wsPc :
      /\ WsTargetName(wsPath[s]) = "api"
      /\ wsPc[s] = "returned"
      /\ target_ws[s] = "closed"
      /\ inbound[s] = "closed"
      /\ wsInfo[s] = <<>>
      /\ \E k \in DOMAIN sdPc : sdPc[k] # "idle"

\* C34: a shutdown() call copies the registry first and cancels afterwards:
\* the step that takes the copy takes the registry as it is and requests
\* the cancellation of every task of the copy; a cancellation is requested
\* of a session only by a shutdown() call that holds it in its copy (at its
\* start or when its timeout expires); such a step moves no HTTP call; and
\* the copy stays as taken while shutdown waits, whatever sessions remove
\* themselves from the registry meanwhile.
C34_CancelsTheSnapshot ==
    [][/\ \A k \in DOMAIN sdPc :
            /\ (sdPc[k] = "idle" /\ sdPc'[k] = "gathering") =>
                 /\ sdTasks'[k] = active_websockets
                 /\ \A s \in sdTasks'[k] : wsCancel'[s]
            /\ (sdPc[k] \in {"gathering", "timedout"}
                  /\ sdPc'[k] \in {"gathering", "timedout"}) =>
                 sdTasks'[k] = sdTasks[k]
       /\ \A s \in DOMAIN wsPc :
            (~wsCancel[s] /\ wsCancel'[s]) =>
              /\ \E k \in DOMAIN sdPc :
                   /\ s \in sdTasks'[k]
                   /\ \/ sdPc[k] = "idle" /\ sdPc'[k] = "gathering"
                      \/ sdPc[k] = "gathering" /\ sdPc'[k] = "timedout"
              /\ httpPc' = httpPc]_vars

\* C34 witness: shutdown() waits with one session in its copy, cancelled and
\* already out of the registry, while another session, which was dialing
\* when the copy was taken, is open and was never cancelled.
C34_Witness ==
    \E k \in DOMAIN sdPc, s, t \in DOMAIN wsPc :
      /\ sdPc[k] = "gathering"
      /\ sdTasks[k] = {s}
      /\ s \notin active_websockets
      /\ wsPc[s] \in {"closingTarget", "closingClient"}
      /\ wsPc[t] = "waiting"
      /\ t \in active_websockets
      /\ ~wsStartedAfter[t]
      /\ ~wsCancel[t]

\* An HTTP call passes the gate in this step.
PassesGate(c) == httpPc[c] = "idle" /\ httpPc'[c] = "body"

\* C36: no client exists until an HTTP call has passed the gate; a client is
\* made only by a call passing the gate, which makes one exactly when it
\* finds none or a closed one and has an open client afterwards; the clients
\* made and not closed are at most one, and it is the one held; once a
\* shutdown() call has returned no open client is held and none is made.
C36_ClientLifecycle ==
    /\ [](/\ clientsMade = 0 => http_client = "none"
          /\ clientsMade - clientCloses \in {0, 1}
          /\ http_client = "open" <=> clientsMade - clientCloses = 1
          /\ (\E k \in DOMAIN sdPc : sdPc[k] = "done") => http_client # "open")
    /\ [][/\ clientsMade' # clientsMade =>
               \E c \in DOMAIN httpPc : PassesGate(c) /\ accepting_connections
          /\ \A c \in DOMAIN httpPc :
               PassesGate(c) =>
                 /\ http_client' = "open"
                 /\ clientsMade' =
                      IF http_client \in {"none", "closed"}
                        THEN clientsMade + 1 ELSE clientsMade
          /\ (\E k \in DOMAIN sdPc : sdPc[k] = "done") =>
               clientsMade' = clientsMade]_vars

\* C36 witness: a second HTTP call used the client the first one made;
\* shutdown() closed that client and returned, and a call arriving after
\* that was answered 503 without a client being made.
C36_Witness ==
    /\ clientsMade = 1
    /\ clientCloses = 1
    /\ http_client = "none"
    /\ \E k \in DOMAIN sdPc : sdPc[k] = "done"
    /\ \E c \in DOMAIN httpPc :
         /\ httpPc[c] = "done"
         /\ httpStartedAfter[c]
         /\ httpFailure[c] = "gate"

\* C37: a session task is added to the registry, and its pumps are started,
\* only in a step taken while the gate is true.
C37_RegistersWhileGateOpen ==
    [][\A s \in DOMAIN wsPc :
         ((s \notin active_websockets /\ s \in active_websockets')
            \/ (\E p \in Pumps : pump[s][p] = "none" /\ pump'[s][p] = "running"))
           => accepting_connections]_vars

\* C38: when a session task has finished, each of its pump tasks, if it was
\* started, has terminated.
C38_NoPumpOutlivesSession ==
    \A s \in DOMAIN wsPc :
      wsPc[s] \in {"returned", "cancelled"} =>
        \A p \in Pumps : pump[s][p] \in PumpDone \cup {"none"}

\* An HTTP call is answered at the closed gate in this step.
HttpRejectedStep(c) ==
    /\ httpPc[c] = "idle"
    /\ httpPc'[c] = "done"

\* A WebSocket upgrade is closed at the closed gate in this step.
WsRejectedStep(s) ==
    /\ wsPc[s] = "idle"
    /\ wsPc'[s] = "rejected"

\* C39: the step that answers an HTTP call with 503 at the closed gate, and
\* the step that closes a WebSocket upgrade with 1001 there, leave the
\* registry, the pooled client (none is made) and the gate as they were.
C39_RejectionChangesNothing ==
    [][/\ \A c \in DOMAIN httpPc :
            HttpRejectedStep(c) =>
              (~accepting_connections /\ httpStatus'[c] = 503)
       /\ \A s \in DOMAIN wsPc :
            WsRejectedStep(s) =>
              (~accepting_connections /\ closeCode'[s] = 1001)
       /\ ((\E c \in DOMAIN httpPc : HttpRejectedStep(c))
             \/ (\E s \in DOMAIN wsPc : WsRejectedStep(s))) =>
            /\ active_websockets' = active_websockets
            /\ http_client' = http_client
            /\ clientsMade' = clientsMade
            /\ accepting_connections' = accepting_connections]_vars

\* C39 witness: while shutdown() waits for an open session, with the pooled
\* client still open, an HTTP call and a WebSocket upgrade have both been
\* rejected; the session is still registered and the client still open.
C39_Witness ==
    /\ ~accepting_connections
    /\ http_client = "open"
    /\ active_websockets # {}
    /\ \E c \in DOMAIN httpPc :
         httpPc[c] = "done" /\ httpFailure[c] = "gate" /\ httpStatus[c] = 503
    /\ \E s \in DOMAIN wsPc : wsPc[s] = "rejected" /\ closeCode[s] = 1001

\* The tasks inside a block of the lock.
LockHolders == {t \in DOMAIN lockHolding : lockHolding[t] # "out"}

\* The task is queued for the lock.
LockQueued(t) == \E i \in 1..Len(lockWaiters) : lockWaiters[i] = t

\* C35: at most one task is inside a block of self._ws_lock at any time, and
\* the lock is held exactly while one is; a session task enters or leaves
\* the registry, and a shutdown() call copies it, only in a run taken inside
\* such a block; every task that is inside a block leaves it (the lock is
\* released, also with a cancel() of the holder pending); and every task
\* queued for the lock gets it.
C35_RegistryUnderLock ==
    /\ [](/\ Cardinality(LockHolders) <= 1
          /\ lockLocked <=> LockHolders # {})
    /\ [][/\ \A s \in DOMAIN wsPc :
               ((s \in active_websockets) # (s \in active_websockets')) =>
                 InSection(SessionTask(s))
          /\ \A k \in DOMAIN sdPc :
               (sdPc[k] = "idle" /\ sdPc'[k] # "idle") =>
                 InSection(ShutdownTask(k))]_vars
    /\ \A t \in RegistryTasks(Sessions, ShutdownCalls) :
         /\ (lockHolding[t] # "out") ~> (lockHolding[t] = "out")
         /\ LockQueued(t) ~> (lockHolding[t] # "out")

\* C35 witness: a session cancelled by shutdown() is inside the block of its
\* finally block, the cancel() still pending, while another session, whose
\* dial has ended, is queued for the lock.
C35_Witness ==
    \E s, u \in DOMAIN wsPc :
      /\ s # u
      /\ InSection(SessionTask(s))
      /\ wsCancel[s]
      /\ lockLocked
      /\ lockWaiters = <<SessionTask(u)>>
      /\ wsPc[u] = "dialing"
\* ------------------------------------------------------------ specifications
WsNext ==
    \/ \E s \in DOMAIN wsPc, path \in WsInputs.paths : WsStart(s, path)
    \/ \E s \in DOMAIN wsPc, installed \in WsInputs.installed :
          WsAccepted(s, installed)
    \/ \E s \in DOMAIN wsPc : WsDialOk(s)
    \/ \E s \in DOMAIN wsPc, e \in WsInputs.dialErrors : WsDialFail(s, e)
    \/ \E s \in DOMAIN wsPc, p \in Pumps :
          \E e \in WsInputs.ends[p] : PumpFinish(s, p, e)
    \/ \E s \in DOMAIN wsPc, p \in Pumps : PumpCancelled(s, p)
    \/ \E s \in DOMAIN wsPc : WsWake(s)
    \/ \E s \in DOMAIN wsPc : WsDrained(s)
    \/ \E s \in DOMAIN wsPc : WsCancelledWaiting(s)
    \/ \E s \in DOMAIN wsPc : WsTargetClosed(s)
    \/ \E s \in DOMAIN wsPc : WsClientClosed(s)
    \/ \E s \in DOMAIN wsPc : WsCancelledTeardown(s)
    \/ \E k \in DOMAIN sdPc : ShutdownGathered(k)
    \/ \E k \in DOMAIN sdPc : ShutdownTimeout(k)
    \/ \E k \in DOMAIN sdPc : ShutdownTimedOut(k)

HttpNextStep ==
    \/ \E c \in DOMAIN httpPc, op \in HttpOps, path \in Inputs.paths,
          h \in Inputs.headers, q \in Inputs.queries, b \in Inputs.bodies,
          conn \in Inputs.conns :
            HttpStart(c, op, path, h, q, b, conn)
    \/ \E c \in DOMAIN httpPc, ok \in BOOLEAN : HttpBodyRead(c, ok)
    \/ \E c \in DOMAIN httpPc, ans \in Inputs.answers : HttpAnswered(c, ans)
    \/ \E c \in DOMAIN httpPc, f \in Failures : HttpFailed(c, f)
    \/ \E c \in DOMAIN httpPc, ans \in Inputs.answers : HttpAnswerUnusable(c, ans)
    \/ \E c \in DOMAIN httpPc, ok \in BOOLEAN : HttpStreamEnd(c, ok)
    \/ \E c \in DOMAIN httpPc, started \in BOOLEAN :
          HttpStreamDropped(c, started)
    \/ \E c \in DOMAIN httpPc : HttpNext(c)
    \/ \E k \in DOMAIN sdPc : ShutdownStart(k)
    \/ \E k \in DOMAIN sdPc : ShutdownClientClosed(k)

\* The proxy with WebSocket sessions, HTTP calls and one shutdown() call.
Next == WsNext \/ HttpNextStep

Spec == Init /\ [][Next]_vars

\* The proxy with a second shutdown() call, overlapping the first or after
\* it (and one session fewer, which keeps the state space in reach).
InitRepeat ==
    InitWith(1..(NumSessions - 1), HttpCalls, 1..(NumShutdowns + 1),
             DefaultApiPrefix, "plain")

SpecRepeat == InitRepeat /\ [][Next]_vars

\* The HTTP relay alone: one call at a time, any of the paths, header sets
\* and upstream answers, under any of the api_prefix arguments.
InitHttp ==
    \E raw \in RawPrefixes : InitWith({}, {1}, {1}, raw, "relay")

SpecHttp == InitHttp /\ [][HttpNextStep]_vars

\* The HTTP relay alone under the default prefix: requests with and without
\* a query string.
InitPayload == InitWith({}, {1}, {1}, DefaultApiPrefix, "payload")

SpecPayload == InitPayload /\ [][HttpNextStep]_vars

\* The HTTP relay alone under the default prefix: requests from several
\* peers and schemes, with a Host header and with headers of the client's
\* own under the names the proxy sets.
InitForwarded == InitWith({}, {1}, {1}, DefaultApiPrefix, "forwarded")

SpecForwarded == InitForwarded /\ [][HttpNextStep]_vars

\* One WebSocket session relaying frames in both directions, and a
\* shutdown() call.
FramesNext ==
    \/ WsNext
    \/ \E k \in DOMAIN sdPc : ShutdownStart(k)
    \/ \E s \in DOMAIN wsPc, p \in Pumps, f \in Frames : PumpReceive(s, p, f)
    \/ \E s \in DOMAIN wsPc, p \in Pumps : PumpSent(s, p)

InitFrames == InitWith({1}, {}, {1}, DefaultApiPrefix, "plain")

SpecFrames == InitFrames /\ [][FramesNext]_vars

\* One WebSocket session, to the UI or to the API, with every dial outcome
\* and every pump event, and a shutdown() call.
SessionNext ==
    \/ WsNext
    \/ \E k \in DOMAIN sdPc : ShutdownStart(k)

InitSession == InitWith({1}, {}, {1}, DefaultApiPrefix, "session")

SpecSession == InitSession /\ [][SessionNext]_vars

\* Concurrent WebSocket sessions whose pumps end by disconnects, closes and
\* errors, and a shutdown() call.
InitPumps == InitWith(Sessions, {}, ShutdownCalls, DefaultApiPrefix, "pumps")

SpecPumps == InitPumps /\ [][SessionNext]_vars

\* What a session task does once the event loop resumes it: the waits it is
\* in end (asyncio.wait returns, a cancellation is delivered, a close
\* completes within its own time limit).  Pumps need not ever finish, and
\* the dial and the accept are left out: a session that has not dialed is
\* not in the registry.
SessionStep(s) ==
    \/ WsWake(s)
    \/ WsDrained(s)
    \/ WsCancelledWaiting(s)
    \/ WsTargetClosed(s)
    \/ WsClientClosed(s)
    \/ WsCancelledTeardown(s)
    \/ \E p \in Pumps : PumpCancelled(s, p)

\* What a shutdown() call does once it is resumed.
ShutdownStep(k) ==
    \/ ShutdownGathered(k)
    \/ ShutdownTimeout(k)
    \/ ShutdownTimedOut(k)
    \/ ShutdownClientClosed(k)

\* The event loop runs every task that is ready, and the timer of wait_for
\* expires.
Fairness ==
    /\ \A s \in Sessions : WF_vars(SessionStep(s))
    /\ \A k \in ShutdownCalls : WF_vars(ShutdownStep(k))

SpecLive == Init /\ [][Next]_vars /\ Fairness

\* The run of a session task that contains a block of the lock: the
\* registration with what follows the dial, or the finally block.
SessionSection(s) ==
    /\ InSection(SessionTask(s))
    /\ \/ WsDialOk(s)
       \/ \E e \in WsInputs.dialErrors : WsDialFail(s, e)
       \/ WsWake(s)
       \/ WsDrained(s)
       \/ WsCancelledWaiting(s)

\* The run of a shutdown() call that contains the copy of the registry.
ShutdownSection(k) ==
    /\ InSection(ShutdownTask(k))
    /\ ShutdownStart(k)

\* The sessions and shutdown() with the blocks of self._ws_lock taken apart:
\* a task reaches the block, enters it (at once or from the queue), runs
\* the run that contains the block, and leaves the block; its other runs
\* are taken outside.
LockNext ==
    \/ \E t \in DOMAIN lockHolding : LockArrive(t)
    \/ \E t \in DOMAIN lockHolding : LockWake(t)
    \/ \E t \in DOMAIN lockHolding : LockRelease(t)
    \/ \E s \in DOMAIN wsPc : SessionSection(s)
    \/ \E k \in DOMAIN sdPc : ShutdownSection(k)
    \/ \E s \in DOMAIN wsPc, path \in WsInputs.paths : WsStart(s, path)
    \/ \E s \in DOMAIN wsPc, installed \in WsInputs.installed :
          WsAccepted(s, installed)
    \/ \E s \in DOMAIN wsPc :
          /\ Outside(SessionTask(s))
          /\ \E p \in Pumps : pump[s][p] = "running"
          /\ WsWake(s)
    \/ \E s \in DOMAIN wsPc, p \in Pumps :
          \E e \in WsInputs.ends[p] : PumpFinish(s, p, e)
    \/ \E s \in DOMAIN wsPc, p \in Pumps : PumpCancelled(s, p)
    \/ \E s \in DOMAIN wsPc : Outside(SessionTask(s)) /\ WsTargetClosed(s)
    \/ \E s \in DOMAIN wsPc : Outside(SessionTask(s)) /\ WsClientClosed(s)
    \/ \E s \in DOMAIN wsPc :
          Outside(SessionTask(s)) /\ WsCancelledTeardown(s)
    \/ \E k \in DOMAIN sdPc : Outside(ShutdownTask(k)) /\ ShutdownGathered(k)
    \/ \E k \in DOMAIN sdPc : Outside(ShutdownTask(k)) /\ ShutdownTimeout(k)
    \/ \E k \in DOMAIN sdPc : Outside(ShutdownTask(k)) /\ ShutdownTimedOut(k)

InitLock == InitWith(Sessions, {}, ShutdownCalls, DefaultApiPrefix, "plain")

\* The event loop runs every task that is ready: a task woken from the
\* queue of the lock enters the block, and a task inside the block runs its
\* body and leaves (the block has no suspension point).
LockStep(t) ==
    \/ LockWake(t)
    \/ LockRelease(t)
    \/ t.kind = "proxy_websocket" /\ SessionSection(t.id)
    \/ t.kind = "shutdown" /\ ShutdownSection(t.id)

LockFairness == \A t \in RegistryTasks(Sessions, ShutdownCalls) : WF_vars(LockStep(t))

SpecLock == InitLock /\ [][LockNext]_vars /\ LockFairness

====
